---- MODULE Spec2Model ----
(***************************************************************************)
(* Local password manager: the encrypted vault (DataRepository, DataStore, *)
(* CryptoService) and the session gate in front of it                      *)
(* (AuthenticationService).                                                *)
(*                                                                         *)
(* Python values that may be None are records: None is a record of its own *)
(* shape, strings that travel through the cipher are Str(..) records, JSON *)
(* texts are Json(..) records.  Texts that are never None (platform,       *)
(* username, notes) are sequences of characters.                           *)
(***************************************************************************)
EXTENDS Integers, Sequences, FiniteSets, TLC

VARIABLES
    file,               \* the live vault file (data_file_path): None or an envelope
    temp_file,          \* temp/temp_<stamp>.enc of the save in progress
    backup_file,        \* backup/backup_<stamp>.enc, the most recent one: "none",
                        \* "copy" (of the vault file as it is now) or "older"
    data_store,         \* DataRepository._data_store
    master_password,    \* DataRepository._master_password
    pc,                 \* position inside _save_to_file, "idle" between calls
    call,               \* the repository call whose save is in progress
    ret,                \* what the last finished call returned
    before,             \* what change_master_password found when it was called
    io_failures,        \* file operations that have failed so far
    is_authenticated,   \* AuthenticationService._is_authenticated
    failed_attempts,    \* AuthenticationService._failed_attempts
    lockout_until,      \* AuthenticationService._lockout_until
    auto_lock_timer,    \* AuthenticationService._auto_lock_timer
    auto_lock_timeout,  \* AuthenticationService._auto_lock_timeout (seconds)
    on_auto_lock_callback, \* AuthenticationService._on_auto_lock_callback is set
    orphan_timers,      \* Timer threads past their wait, no longer referenced
    activity,           \* flips on every call that restarts or ends the session timer
    session_end,        \* how the last session ended; "none" while one is open
    clients,            \* every RemoteClient handed out: config key, _client, _connected
    connections,        \* RemoteClientPool.connections: client ids in insertion order
    cmd,                \* what the last execute_command call did
    stop_scan_flag,     \* PortScanner._stop_scan
    scan_pc,            \* where the scan_ports call in progress is; "idle" when none is
    scan_config,        \* the ScanConfig of that call
    next_port,          \* index into port_range of the next submission-loop iteration
    submitted,          \* probe tasks submitted to the executor
    completed,          \* probe tasks that have finished
    collected,          \* results taken by the collection loop
    scan_result,        \* what the last scan_ports call returned or raised
    stop_called,        \* stop_scan() was called since the scan in progress was entered
    clipboard,          \* the text on the system clipboard
    last_copied_text,   \* ClipboardManager._last_copied_text
    clear_timer,        \* ClipboardManager._clear_timer: an index into clip_timers, 0 for None
    clip_timers,        \* the threading.Timer objects created by copy_text
    placed,             \* the timer scheduled by the call that placed the clipboard's text
    today,              \* datetime.now(), in days
    extend,             \* the arguments and the time of the last extend_password_expiry call
    restore,            \* the backup entry and the flag of the last restore
    list_objects,       \* the Python lists of RemoteConfig objects, by reference
    remote_configs,     \* MainWindow.remote_configs: a reference to a list
    remote_config_file, \* the profiles in the saved profile file
    dialog,             \* the RemoteConfigDialog last opened
    is_scanning,        \* MainWindow.is_scanning
    scan_button,        \* the state of the Start button
    stop_button,        \* the state of the Stop button
    scan_thread,        \* the worker thread of the scan started last
    after_call,         \* the callback the worker handed to root.after, "none" when run
    cli,                \* the last command-line request and what it returned
    config_call,        \* the last add_remote_config or remove_remote_config call
    remote_procs,       \* the processes of the remote host: pid -> running
    kill,               \* the kill_remote_process call in progress or finished last
    local_procs,        \* the processes of this host: pid -> "none", "running" or "terminating"
    term_call,               \* the last terminate_process call
    envelope,           \* the last envelope encrypt_data produced
    decrypted,          \* the last decrypt_data call on that envelope
    probe,              \* the scan_ports call whose probes are followed one by one
    scan_returned       \* the ScanResult that call returned

repo_vars == <<file, temp_file, backup_file, data_store, master_password,
               pc, call, ret, before, io_failures>>
auth_vars == <<is_authenticated, failed_attempts, lockout_until, auto_lock_timer,
               auto_lock_timeout, on_auto_lock_callback,
               orphan_timers, activity, session_end>>
pool_vars == <<clients, connections, cmd>>
scan_vars == <<stop_scan_flag, scan_pc, scan_config, next_port, submitted, completed,
               collected, scan_result, stop_called>>
clip_vars == <<clipboard, last_copied_text, clear_timer, clip_timers, placed>>
clock_vars == <<today, extend>>
backup_vars == <<restore>>
dialog_vars == <<list_objects, remote_configs, remote_config_file, dialog>>
gui_vars == <<is_scanning, scan_button, stop_button, scan_thread, after_call>>
cli_vars == <<cli>>
config_vars == <<config_call>>
kill_vars == <<remote_procs, kill>>
term_vars == <<local_procs, term_call>>
crypto_vars == <<envelope, decrypted>>
probe_vars == <<probe, scan_returned>>
tool_vars == <<pool_vars, scan_vars, clip_vars, clock_vars, backup_vars, dialog_vars, gui_vars, cli_vars, config_vars, kill_vars, term_vars, crypto_vars, probe_vars>>
vault_vars == <<repo_vars, auth_vars, clock_vars, backup_vars>>
not_pool_vars == <<vault_vars, scan_vars, clip_vars, dialog_vars, gui_vars, cli_vars, config_vars, kill_vars, term_vars, crypto_vars, probe_vars>>
not_scan_vars == <<vault_vars, pool_vars, clip_vars, dialog_vars, gui_vars, cli_vars, config_vars, kill_vars, term_vars, crypto_vars, probe_vars>>
not_clip_vars == <<vault_vars, pool_vars, scan_vars, dialog_vars, gui_vars, cli_vars, config_vars, kill_vars, term_vars, crypto_vars, probe_vars>>
not_dialog_vars == <<vault_vars, pool_vars, scan_vars, clip_vars, gui_vars, cli_vars, config_vars, kill_vars, term_vars, crypto_vars, probe_vars>>
not_cli_vars == <<vault_vars, pool_vars, scan_vars, clip_vars, dialog_vars, gui_vars, config_vars, kill_vars, term_vars, crypto_vars, probe_vars>>
not_config_vars == <<vault_vars, pool_vars, scan_vars, clip_vars, dialog_vars, gui_vars, cli_vars, kill_vars, term_vars, crypto_vars, probe_vars>>
\* what neither the dialog nor the Configuration Manager touches
not_profile_vars == <<vault_vars, pool_vars, scan_vars, clip_vars, gui_vars, cli_vars, kill_vars, term_vars, crypto_vars, probe_vars>>
not_kill_vars == <<vault_vars, pool_vars, scan_vars, clip_vars, dialog_vars, gui_vars, cli_vars, config_vars, term_vars, crypto_vars, probe_vars>>
not_term_vars == <<vault_vars, pool_vars, scan_vars, clip_vars, dialog_vars, gui_vars, cli_vars, config_vars, kill_vars, crypto_vars, probe_vars>>
not_crypto_vars == <<vault_vars, pool_vars, scan_vars, clip_vars, dialog_vars, gui_vars, cli_vars, config_vars, kill_vars, term_vars, probe_vars>>
not_probe_vars == <<vault_vars, pool_vars, scan_vars, clip_vars, dialog_vars, gui_vars, cli_vars, config_vars, kill_vars, term_vars, crypto_vars>>
\* what the main window and its scanner leave alone
not_gui_vars == <<vault_vars, pool_vars, clip_vars, dialog_vars, cli_vars, config_vars, kill_vars, term_vars, crypto_vars, probe_vars>>
\* what a call into the repository from another component leaves alone
not_vault_vars == <<auth_vars, pool_vars, scan_vars, clip_vars, dialog_vars, gui_vars, cli_vars, config_vars, kill_vars, term_vars, crypto_vars, probe_vars>>
vars == <<repo_vars, auth_vars, tool_vars>>

-----------------------------------------------------------------------------
(* Bounds of the model *)
MaxEntries == 2        \* entries a vault holds in the model
MaxIoFailures == 1     \* file operations that fail in one run
TicksPerSecond == 2    \* clock resolution
MaxOrphans == 1        \* expired Timer threads still to run beside the current one
MaxClients == 6        \* RemoteClient instances handed out
MaxPorts == 2          \* ports in the port_range of a scan
MaxTimers == 2         \* clipboard clear timers created by copy_text
MaxDay == 2            \* days the clock advances
MaxProfiles == 2       \* RemoteConfig profiles in a list
MaxNameLen == 2        \* parts of a profile name: the name given and the copy suffixes
MaxItems == 2          \* comma-separated items of a --ports argument
MaxPids == 2           \* process ids of the remote host

(* Input sets *)
Platforms == {<<"g">>, <<"h">>}
Usernames == {<<"u">>}
Themes == {"default", "dark"}
Salts == {"s1"}

None == [kind |-> "None"]
Str(s) == [kind |-> "str", s |-> s]
Json(v) == [kind |-> "json", v |-> v]
Garbage == [kind |-> "str", s |-> "?", garbled |-> TRUE]

MasterPasswords == {Str("m1"), Str("m2")}
EntryPasswords == {Str("x"), Str("y")}
EmptyPassword == Str("")

-----------------------------------------------------------------------------
(* security/crypto.py *)

\* PBKDF2(password, salt): equal exactly when password and salt are equal
derive_key(password, salt) == [password |-> password, salt |-> salt]

\* What decoding the bytes a wrong key produces gives: the unpadded bytes
\* either fail to decode as UTF-8 (an exception, hence None) or decode to
\* a garbled text; which one depends on the random salt and iv.
WrongKeyText(salt) == IF salt = "s1" THEN None ELSE Garbage

encrypt_data(data, password, salt) ==
    [encrypted_data |-> [key |-> derive_key(password, salt), padded |-> data],
     salt |-> salt]

decrypt_data(encrypted_info, password) ==
    LET key == derive_key(password, encrypted_info.salt)
    IN  IF key = encrypted_info.encrypted_data.key
        THEN encrypted_info.encrypted_data.padded
        ELSE WrongKeyText(encrypted_info.salt)

hash_password(password, salt) ==
    [hash |-> derive_key(password, salt), salt |-> salt]

verify_password(password, stored_hash, salt) ==
    derive_key(password, salt) = stored_hash

\* json.dumps / json.loads; loads raises on anything that is not JSON text
json_dumps(v) == Json(v)
json_loads_raises(s) == s.kind # "json"
json_loads(s) == s.v

-----------------------------------------------------------------------------
(* core/models.py *)

\* PasswordEntry.__post_init__: a fresh id is one that no entry of the store
\* carries; the least such number stands for it
uuid4(store) ==
    CHOOSE id \in 1..(Len(store.entries) + 1) :
        /\ \A i \in 1..Len(store.entries) : store.entries[i].id # id
        /\ \A smaller \in 1..(id - 1) :
              \E i \in 1..Len(store.entries) : store.entries[i].id = smaller

\* __post_init__: a new entry expires 90 days after its construction
default_expiry_days == 90

PasswordEntry(id, platform, username, encrypted_password, notes) ==
    [id |-> id, platform |-> platform, username |-> username,
     encrypted_password |-> encrypted_password, notes |-> notes,
     expires_at |-> today + default_expiry_days]

MasterConfig(password_hash, salt) ==
    [password_hash |-> password_hash, salt |-> salt]

NewDataStore ==
    [kind |-> "DataStore", entries |-> <<>>, master_config |-> None,
     app_settings |-> "default", version |-> "1.0.0"]

\* DataStore.add_entry: the new store and the returned flag
add_entry_ok(store, entry) ==
    \A i \in 1..Len(store.entries) :
        ~(store.entries[i].platform = entry.platform
          /\ store.entries[i].username = entry.username)

add_entry(store, entry) ==
    IF add_entry_ok(store, entry)
    THEN [store EXCEPT !.entries = Append(@, entry)]
    ELSE store

\* index of the first entry with this id, 0 when there is none
IndexOfId(store, entry_id) ==
    IF \E i \in 1..Len(store.entries) : store.entries[i].id = entry_id
    THEN CHOOSE i \in 1..Len(store.entries) :
            /\ store.entries[i].id = entry_id
            /\ \A j \in 1..(i - 1) : store.entries[j].id # entry_id
    ELSE 0

get_entry_by_id(store, entry_id) ==
    IF IndexOfId(store, entry_id) = 0 THEN None
    ELSE store.entries[IndexOfId(store, entry_id)]

\* DataStore.update_entry: the entry at the id's position is replaced, keeping the id
update_entry(store, entry_id, updated_entry) ==
    IF IndexOfId(store, entry_id) = 0 THEN store
    ELSE [store EXCEPT !.entries[IndexOfId(store, entry_id)] =
                            [updated_entry EXCEPT !.id = entry_id]]

RemoveAt(seq, i) == SubSeq(seq, 1, i - 1) \o SubSeq(seq, i + 1, Len(seq))

delete_entry(store, entry_id) ==
    IF IndexOfId(store, entry_id) = 0 THEN store
    ELSE [store EXCEPT !.entries = RemoveAt(@, IndexOfId(store, entry_id))]

\* DataStore.to_dict / from_dict
EntryToDict(e) ==
    [f_id |-> e.id, f_platform |-> e.platform, f_username |-> e.username,
     f_encrypted_password |-> e.encrypted_password, f_notes |-> e.notes,
     f_expires_at |-> e.expires_at]

EntryFromDict(d) ==
    [PasswordEntry(d.f_id, d.f_platform, d.f_username, d.f_encrypted_password, d.f_notes)
        EXCEPT !.expires_at = d.f_expires_at]

to_dict(store) ==
    [f_version |-> store.version,
     f_entries |-> [i \in 1..Len(store.entries) |-> EntryToDict(store.entries[i])],
     f_master_config |-> store.master_config,
     f_app_settings |-> store.app_settings]

from_dict(d) ==
    [kind |-> "DataStore",
     entries |-> [i \in 1..Len(d.f_entries) |-> EntryFromDict(d.f_entries[i])],
     master_config |-> d.f_master_config,
     app_settings |-> d.f_app_settings,
     version |-> d.f_version]

-----------------------------------------------------------------------------
(* data/repository.py *)

\* what a call returned; loaded tells whether it called load_database
Ret(op, success) ==
    [op |-> op, success |-> success, locked_out |-> FALSE, loaded |-> FALSE]

NoCall == [op |-> "", ok |-> FALSE, fail |-> FALSE]

\* a temp file whose write was cut short
Torn == [kind |-> "torn"]

is_loaded == data_store # None /\ master_password # None

\* load_database, as a function of the vault file and the password tried
LoadParses(f, password) ==
    /\ f # None
    /\ decrypt_data(f, password) # None
    /\ ~json_loads_raises(decrypt_data(f, password))

LoadedStore(f, password) == from_dict(json_loads(decrypt_data(f, password)))

LoadVerifies(f, password) ==
    \/ LoadedStore(f, password).master_config = None
    \/ verify_password(password,
                       LoadedStore(f, password).master_config.password_hash,
                       LoadedStore(f, password).master_config.salt)

\* a load that accepts any password once a vault file exists
load_database_any(f, password) == f # None
load_database_result(f, password) ==
    LoadParses(f, password) /\ LoadVerifies(f, password)

\* the state load_database leaves behind
load_database_effect(password) ==
    /\ data_store' = IF LoadParses(file, password)
                     THEN LoadedStore(file, password) ELSE data_store
    /\ master_password' = IF load_database_result(file, password)
                          THEN password ELSE master_password

\* a call that ends in save_database(): _save_to_file runs next
BeginSave(op, ok, fail) ==
    /\ pc' = "write_temp"
    /\ call' = [op |-> op, ok |-> ok, fail |-> fail]
    /\ UNCHANGED ret

\* a call that returns without saving
Return(r) ==
    /\ ret' = r
    /\ UNCHANGED <<pc, call>>

FinishSave(saved) ==
    /\ saved \/ io_failures < MaxIoFailures
    /\ io_failures' = IF saved THEN io_failures ELSE io_failures + 1
    /\ pc' = "idle"
    /\ ret' = Ret(call.op, IF saved THEN call.ok ELSE call.fail)
    /\ call' = NoCall

InitializeNewDatabase(password, salt) ==
    /\ pc = "idle"
    /\ data_store' = [NewDataStore EXCEPT !.master_config =
                         MasterConfig(hash_password(password, salt).hash,
                                      hash_password(password, salt).salt)]
    /\ master_password' = password
    /\ BeginSave("initialize_new_database", TRUE, FALSE)
    /\ before' = None
    /\ UNCHANGED <<file, temp_file, backup_file, io_failures, auth_vars, tool_vars>>

LoadDatabase(password) ==
    /\ pc = "idle"
    /\ load_database_effect(password)
    /\ Return([Ret("load_database", load_database_result(file, password))
                    EXCEPT !.loaded = TRUE])
    /\ before' = None
    /\ UNCHANGED <<file, temp_file, backup_file, io_failures, auth_vars, tool_vars>>

\* a save that goes from the temp file straight to the move
AfterWriteTempMove == "move"
\* _save_to_file, step 1: serialise, encrypt, write the temp file; the backup is next
AfterWriteTemp == "backup"

WriteTemp(salt) ==
    /\ pc = "write_temp"
    /\ temp_file' = encrypt_data(json_dumps(to_dict(data_store)), master_password, salt)
    /\ pc' = AfterWriteTemp
    /\ UNCHANGED <<file, backup_file, data_store, master_password, call, ret,
                   before, io_failures, auth_vars, tool_vars>>

WriteTempFails ==
    /\ pc = "write_temp"
    /\ temp_file' = Torn
    /\ FinishSave(FALSE)
    /\ UNCHANGED <<file, backup_file, data_store, master_password,
                   before, auth_vars, tool_vars>>

\* step 2: copy an existing vault file to the backup directory
BackupExisting ==
    /\ pc = "backup"
    /\ backup_file' = IF file # None THEN "copy" ELSE backup_file
    /\ pc' = "move"
    /\ UNCHANGED <<file, temp_file, data_store, master_password, call, ret,
                   before, io_failures, auth_vars, tool_vars>>

BackupFails ==
    /\ pc = "backup"
    /\ file # None
    /\ FinishSave(FALSE)
    /\ UNCHANGED <<file, temp_file, backup_file, data_store, master_password,
                   before, auth_vars, tool_vars>>

\* step 3: move the temp file over the vault file
MoveTemp ==
    /\ pc = "move"
    /\ file' = temp_file
    /\ temp_file' = None
    /\ backup_file' = IF backup_file = "copy" /\ file' # file THEN "older" ELSE backup_file
    /\ FinishSave(TRUE)
    /\ UNCHANGED <<data_store, master_password,
                   before, auth_vars, tool_vars>>

MoveFails ==
    /\ pc = "move"
    /\ FinishSave(FALSE)
    /\ UNCHANGED <<file, temp_file, backup_file, data_store, master_password,
                   before, auth_vars, tool_vars>>

AddPasswordEntry(platform, username, password, salt) ==
    /\ pc = "idle"
    /\ before' = None
    /\ IF ~is_loaded
       THEN /\ Return(Ret("add_password_entry", FALSE))
            /\ UNCHANGED data_store
       ELSE LET entry == PasswordEntry(uuid4(data_store), platform, username,
                             json_dumps(encrypt_data(password, master_password, salt)),
                             <<>>)
            IN  IF add_entry_ok(data_store, entry)
                THEN /\ Len(data_store.entries) < MaxEntries
                     /\ data_store' = add_entry(data_store, entry)
                     /\ BeginSave("add_password_entry", TRUE, TRUE)
                ELSE /\ Return(Ret("add_password_entry", FALSE))
                     /\ UNCHANGED data_store
    /\ UNCHANGED <<file, temp_file, backup_file, master_password, io_failures, auth_vars, tool_vars>>

get_password_entries ==
    IF ~is_loaded THEN <<>> ELSE data_store.entries

decrypt_password(entry) ==
    IF ~is_loaded THEN None
    ELSE IF json_loads_raises(entry.encrypted_password) THEN None
    ELSE decrypt_data(json_loads(entry.encrypted_password), master_password)

UpdatePasswordEntry(entry_id, platform, username, password, salt) ==
    /\ pc = "idle"
    /\ before' = None
    /\ IF ~is_loaded \/ IndexOfId(data_store, entry_id) = 0
       THEN /\ Return(Ret("update_password_entry", FALSE))
            /\ UNCHANGED data_store
       ELSE /\ data_store' = update_entry(data_store, entry_id,
                                PasswordEntry(0, platform, username,
                                    json_dumps(encrypt_data(password, master_password, salt)),
                                    <<>>))
            /\ BeginSave("update_password_entry", TRUE, TRUE)
    /\ UNCHANGED <<file, temp_file, backup_file, master_password,
                   io_failures, auth_vars, tool_vars>>

DeletePasswordEntry(entry_id) ==
    /\ pc = "idle"
    /\ before' = None
    /\ IF ~is_loaded \/ IndexOfId(data_store, entry_id) = 0
       THEN /\ Return(Ret("delete_password_entry", FALSE))
            /\ UNCHANGED data_store
       ELSE /\ data_store' = delete_entry(data_store, entry_id)
            /\ BeginSave("delete_password_entry", TRUE, TRUE)
    /\ UNCHANGED <<file, temp_file, backup_file, master_password,
                   io_failures, auth_vars, tool_vars>>

UpdateAppSettings(settings) ==
    /\ pc = "idle"
    /\ before' = None
    /\ IF ~is_loaded
       THEN /\ Return(Ret("update_app_settings", FALSE))
            /\ UNCHANGED data_store
       ELSE /\ data_store' = [data_store EXCEPT !.app_settings = settings]
            /\ BeginSave("update_app_settings", TRUE, FALSE)
    /\ UNCHANGED <<file, temp_file, backup_file, master_password,
                   io_failures, auth_vars, tool_vars>>

\* a loop that leaves the ciphertext as it was
KeepCiphertext(entry, old_password, new_password, salt) == entry
\* change_master_password: the loop that re-encrypts the entries one by one
ReencryptEntry(entry, old_password, new_password, salt) ==
    [entry EXCEPT !.encrypted_password =
        json_dumps(encrypt_data(decrypt_data(json_loads(@), old_password),
                                new_password, salt))]

\* the first entry decrypt_data gives None for, 0 when there is none
FirstUndecryptable(store, old_password) ==
    LET bad == {i \in 1..Len(store.entries) :
                  decrypt_data(json_loads(store.entries[i].encrypted_password),
                               old_password) = None}
    IN  IF bad = {} THEN 0 ELSE CHOOSE i \in bad : \A j \in bad : i <= j

\* the entries when the loop stops: every entry before the failing one is rewritten
EntriesAfterLoop(store, old_password, new_password, salts) ==
    LET k == FirstUndecryptable(store, old_password)
    IN  [i \in 1..Len(store.entries) |->
            IF k = 0 \/ i < k
            THEN ReencryptEntry(store.entries[i], old_password, new_password, salts[i])
            ELSE store.entries[i]]

\* what the call found: the store, the password held and the vault file
Before(old_password, new_password) ==
    [kind |-> "before", store |-> data_store, master_password |-> master_password,
     file |-> file, old |-> old_password, new |-> new_password]

ChangeMasterPassword(old_password, new_password, salts, hash_salt) ==
    /\ pc = "idle"
    /\ IF ~is_loaded \/ old_password # master_password
       THEN /\ Return(Ret("change_master_password", FALSE))
            /\ before' = None
            /\ UNCHANGED <<data_store, master_password>>
       ELSE IF FirstUndecryptable(data_store, old_password) # 0
       THEN /\ before' = Before(old_password, new_password)
            /\ data_store' = [data_store EXCEPT !.entries =
                EntriesAfterLoop(data_store, old_password, new_password, salts)]
            /\ Return(Ret("change_master_password", FALSE))
            /\ UNCHANGED master_password
       ELSE /\ before' = Before(old_password, new_password)
            /\ data_store' = [data_store EXCEPT
                !.entries = EntriesAfterLoop(data_store, old_password, new_password, salts),
                !.master_config = MasterConfig(hash_password(new_password, hash_salt).hash,
                                               hash_password(new_password, hash_salt).salt)]
            /\ master_password' = new_password
            /\ BeginSave("change_master_password", TRUE, FALSE)
    /\ UNCHANGED <<file, temp_file, backup_file, io_failures, auth_vars, tool_vars>>

-----------------------------------------------------------------------------
(* core/authentication.py *)

MAX_LOGIN_ATTEMPTS == 3
DEFAULT_AUTO_LOCK_TIMEOUT == 300
\* a lockout of ten minutes
lockout_duration_ten == 10 * 60
lockout_duration == 5 * 60

\* a datetime, kept as the number of clock ticks from now until it is reached
\* (0 once it has been reached)
At(ticks) == [kind |-> "datetime", t |-> ticks]

\* a threading.Timer: waiting for its interval to pass, running its function,
\* or finished
Timer(interval) == [kind |-> "Timer", interval |-> interval, state |-> "waiting"]

Timeouts == {0, DEFAULT_AUTO_LOCK_TIMEOUT}

\* a check that never reports a lockout
LockoutNeverInForce == FALSE
\* is_locked_out(): the returned flag ...
LockoutInForce == lockout_until # None /\ lockout_until.t > 0

\* ... and the state it leaves: an expired lockout is cleared
LockoutAfterCheck ==
    IF lockout_until # None /\ ~LockoutInForce THEN None ELSE lockout_until

FailedAfterCheck ==
    IF lockout_until # None /\ ~LockoutInForce THEN 0 ELSE failed_attempts

\* int(remaining.total_seconds()) of a lockout in force
RemainingSeconds(until) == until.t \div TicksPerSecond

\* get_lockout_remaining_time(); -1 stands for None
get_lockout_remaining_time ==
    IF ~LockoutInForce THEN -1
    ELSE IF RemainingSeconds(lockout_until) > 0 THEN RemainingSeconds(lockout_until) ELSE 0

IsAlive(timer) == timer # None /\ timer.state \in {"waiting", "running"}

\* _stop_auto_lock_timer, called from the main thread
StoppedTimer(timer) == IF IsAlive(timer) THEN None ELSE timer

OrphansAfterStop(timer, orphans) ==
    IF timer # None /\ timer.state = "running" THEN orphans + 1 ELSE orphans

\* a start that only stops the old timer
NoTimerStarted(timer, timeout) == StoppedTimer(timer)
\* _start_auto_lock_timer: the timer referenced afterwards
StartedTimer(timer, timeout) ==
    IF timeout > 0 THEN Timer(timeout) ELSE StoppedTimer(timer)

start_auto_lock_timer ==
    /\ auto_lock_timer' = StartedTimer(auto_lock_timer, auto_lock_timeout')
    /\ orphan_timers' = OrphansAfterStop(auto_lock_timer, orphan_timers)
    /\ orphan_timers' <= MaxOrphans

AuthRet(success, locked, loaded) ==
    [op |-> "authenticate", success |-> success, locked_out |-> locked,
     loaded |-> loaded]

Authenticate(password) ==
    /\ pc = "idle"
    /\ activity' = 1 - activity
    /\ before' = None
    /\ IF LockoutInForce
       THEN /\ ret' = AuthRet(FALSE, TRUE, FALSE)
            /\ UNCHANGED <<data_store, master_password, is_authenticated,
                           failed_attempts, lockout_until, auto_lock_timer,
                           auto_lock_timeout, orphan_timers, session_end>>
       ELSE IF password = EmptyPassword
       THEN /\ ret' = AuthRet(FALSE, FALSE, FALSE)
            /\ failed_attempts' = FailedAfterCheck
            /\ lockout_until' = LockoutAfterCheck
            /\ UNCHANGED <<data_store, master_password, is_authenticated,
                           auto_lock_timer, auto_lock_timeout, orphan_timers, session_end>>
       ELSE /\ load_database_effect(password)
            /\ IF load_database_result(file, password)
               THEN /\ is_authenticated' = TRUE
                    /\ failed_attempts' = 0
                    /\ lockout_until' = None
                    /\ UNCHANGED auto_lock_timeout
                    /\ start_auto_lock_timer
                    /\ session_end' = "none"
                    /\ ret' = AuthRet(TRUE, FALSE, TRUE)
               ELSE /\ failed_attempts' = FailedAfterCheck + 1
                    /\ IF failed_attempts' >= MAX_LOGIN_ATTEMPTS
                       THEN /\ lockout_until' = At(lockout_duration * TicksPerSecond)
                            /\ ret' = AuthRet(FALSE, TRUE, TRUE)
                       ELSE /\ lockout_until' = LockoutAfterCheck
                            /\ ret' = AuthRet(FALSE, FALSE, TRUE)
                    /\ UNCHANGED <<is_authenticated, auto_lock_timer, auto_lock_timeout,
                                   orphan_timers, session_end>>
    /\ UNCHANGED <<file, temp_file, backup_file, pc, call, io_failures,
                   on_auto_lock_callback, tool_vars>>

\* is_locked_out() / get_lockout_remaining_time() called by the front end
IsLockedOut ==
    /\ failed_attempts' = FailedAfterCheck
    /\ lockout_until' = LockoutAfterCheck
    /\ UNCHANGED <<tool_vars, repo_vars, is_authenticated, auto_lock_timer, auto_lock_timeout,
                   on_auto_lock_callback, orphan_timers, activity, session_end>>

Logout ==
    /\ activity' = 1 - activity
    /\ is_authenticated' = FALSE
    /\ session_end' = IF is_authenticated THEN "logout" ELSE session_end
    /\ auto_lock_timer' = StoppedTimer(auto_lock_timer)
    /\ orphan_timers' = OrphansAfterStop(auto_lock_timer, orphan_timers)
    /\ orphan_timers' <= MaxOrphans
    /\ UNCHANGED <<tool_vars, repo_vars, failed_attempts, lockout_until, auto_lock_timeout,
                   on_auto_lock_callback>>

UpdateActivity ==
    /\ activity' = 1 - activity
    /\ IF is_authenticated
       THEN /\ UNCHANGED auto_lock_timeout
            /\ start_auto_lock_timer
       ELSE UNCHANGED <<auto_lock_timer, auto_lock_timeout, orphan_timers>>
    /\ UNCHANGED <<tool_vars, repo_vars, is_authenticated, failed_attempts, lockout_until,
                   on_auto_lock_callback, session_end>>

SetAutoLockTimeout(timeout_seconds) ==
    /\ activity' = 1 - activity
    /\ IF timeout_seconds > 0
       THEN /\ auto_lock_timeout' = timeout_seconds
            /\ IF is_authenticated
               THEN start_auto_lock_timer
               ELSE UNCHANGED <<auto_lock_timer, orphan_timers>>
       ELSE UNCHANGED <<auto_lock_timer, auto_lock_timeout, orphan_timers>>
    /\ UNCHANGED <<tool_vars, repo_vars, is_authenticated, failed_attempts, lockout_until,
                   on_auto_lock_callback, session_end>>

SetAutoLockCallback(registered) ==
    /\ on_auto_lock_callback' = registered
    /\ UNCHANGED <<tool_vars, repo_vars, is_authenticated, failed_attempts, lockout_until,
                   auto_lock_timer, auto_lock_timeout, orphan_timers, activity,
                   session_end>>

ResetFailedAttempts ==
    /\ failed_attempts' = 0
    /\ lockout_until' = None
    /\ UNCHANGED <<tool_vars, repo_vars, is_authenticated, auto_lock_timer, auto_lock_timeout,
                   on_auto_lock_callback, orphan_timers, activity, session_end>>

\* the Timer thread: the interval has passed and cancel() has not been called
TimerExpire ==
    /\ auto_lock_timer # None
    /\ auto_lock_timer.state = "waiting"
    /\ auto_lock_timer' = [auto_lock_timer EXCEPT !.state = "running"]
    /\ UNCHANGED <<tool_vars, repo_vars, is_authenticated, failed_attempts, lockout_until,
                   auto_lock_timeout, on_auto_lock_callback, orphan_timers, activity,
                   session_end>>

\* how _auto_lock ends a session: with or without the registered callback
AutoLockEnd == IF on_auto_lock_callback THEN "auto_lock_cb" ELSE "auto_lock"

\* _auto_lock run by the Timer that self._auto_lock_timer still references
AutoLock ==
    /\ auto_lock_timer # None
    /\ auto_lock_timer.state = "running"
    /\ IF is_authenticated
       THEN /\ session_end' = AutoLockEnd
            /\ is_authenticated' = FALSE
            /\ auto_lock_timer' = None
       ELSE /\ auto_lock_timer' = [auto_lock_timer EXCEPT !.state = "finished"]
            /\ UNCHANGED <<session_end, is_authenticated>>
    /\ UNCHANGED <<tool_vars, repo_vars, failed_attempts, lockout_until, auto_lock_timeout,
                   on_auto_lock_callback, orphan_timers, activity>>

\* _auto_lock run by a Timer that was replaced after its interval had passed
AutoLockOrphan ==
    /\ orphan_timers > 0
    /\ IF is_authenticated
       THEN /\ session_end' = AutoLockEnd
            /\ is_authenticated' = FALSE
            /\ auto_lock_timer' = StoppedTimer(auto_lock_timer)
            /\ orphan_timers' = OrphansAfterStop(auto_lock_timer, orphan_timers) - 1
       ELSE /\ orphan_timers' = orphan_timers - 1
            /\ UNCHANGED <<session_end, is_authenticated, auto_lock_timer>>
    /\ UNCHANGED <<tool_vars, repo_vars, failed_attempts, lockout_until, auto_lock_timeout,
                   on_auto_lock_callback, activity>>

\* the clock: time passes up to, or to within a second of, the end of the lockout
Pending == IF LockoutInForce THEN {lockout_until.t} ELSE {}

Elapse(left, d) == IF left > d THEN left - d ELSE 0

Advance(d) ==
    /\ d >= 1
    /\ \E r \in Pending : \E k \in 0..TicksPerSecond : d = r - k
    /\ lockout_until' = At(Elapse(lockout_until.t, d))
    /\ UNCHANGED <<tool_vars, repo_vars, is_authenticated, failed_attempts, auto_lock_timer,
                   auto_lock_timeout, on_auto_lock_callback, orphan_timers, activity,
                   session_end>>

-----------------------------------------------------------------------------
(* core/remote_client.py (port checker) *)

\* RemoteClientPool.__init__: max_connections
max_connections == 5

\* the key user@host:port of a RemoteConfig; profiles are interchangeable, so a
\* profile not seen before takes the next number
Keys == 1..MaxClients

KeysInUse == {clients[i].key : i \in 1..Len(clients)}

\* RemoteClient.__init__
RemoteClient(key) ==
    [key |-> key, client |-> FALSE, connected |-> FALSE, active |-> FALSE]

\* RemoteClient.is_connected
is_connected(c) == c.connected /\ c.client /\ c.active

\* the client holds an open SSH connection
Live(c) == c.client /\ c.active

\* RemoteClient.connect: the client afterwards, and whether a connection was attempted
ConnectAttempts(c) == ~(c.connected /\ c.client)

Connected(c, reachable) ==
    IF c.connected /\ c.client THEN c
    ELSE IF reachable
    THEN [c EXCEPT !.client = TRUE, !.connected = TRUE, !.active = TRUE]
    ELSE [c EXCEPT !.client = FALSE, !.connected = FALSE, !.active = FALSE]

\* RemoteClient.disconnect
Disconnected(c) ==
    IF c.client THEN [c EXCEPT !.client = FALSE, !.connected = FALSE, !.active = FALSE]
    ELSE c

NoCmd == [op |-> "", was_connected |-> FALSE, attempted |-> FALSE, outcome |-> ""]

\* position of the pool entry for this key, 0 when there is none
PoolIndex(key) ==
    LET at == {i \in 1..Len(connections) : clients[connections[i]].key = key}
    IN  IF at = {} THEN 0 ELSE CHOOSE i \in at : TRUE

\* RemoteClientPool.get_client, reached through get_remote_client
GetClient(key) ==
    /\ key \in Keys
    /\ \A k \in 1..(key - 1) : k \in KeysInUse
    /\ IF PoolIndex(key) # 0 /\ is_connected(clients[connections[PoolIndex(key)]])
       THEN UNCHANGED <<clients, connections>>
       ELSE LET kept == IF PoolIndex(key) # 0
                        THEN RemoveAt(connections, PoolIndex(key))
                        ELSE connections
                full == Len(kept) >= max_connections
                closed == IF full
                          THEN [clients EXCEPT ![kept[1]] = Disconnected(@)]
                          ELSE clients
            IN  /\ Len(clients) < MaxClients
                /\ clients' = Append(closed, RemoteClient(key))
                /\ connections' = Append(IF full THEN Tail(kept) ELSE kept,
                                         Len(clients) + 1)
    /\ cmd' = NoCmd
    /\ UNCHANGED not_pool_vars

\* RemoteClient.connect called by a holder of the client
Connect(id, reachable) ==
    /\ id \in 1..Len(clients)
    /\ clients' = [clients EXCEPT ![id] = Connected(@, reachable)]
    /\ cmd' = NoCmd
    /\ UNCHANGED <<connections, not_pool_vars>>

\* RemoteClient.disconnect called by a holder of the client
Disconnect(id) ==
    /\ id \in 1..Len(clients)
    /\ clients' = [clients EXCEPT ![id] = Disconnected(@)]
    /\ cmd' = NoCmd
    /\ UNCHANGED <<connections, not_pool_vars>>

\* RemoteClient.execute_command
ExecuteCommand(id, reachable) ==
    /\ id \in 1..Len(clients)
    /\ LET c == clients[id]
           after == IF is_connected(c) THEN c ELSE Connected(c, reachable)
       IN  /\ clients' = [clients EXCEPT ![id] = after]
           /\ cmd' = [op |-> "execute_command",
                      was_connected |-> is_connected(c),
                      attempted |-> ~is_connected(c) /\ ConnectAttempts(c),
                      outcome |-> IF ~is_connected(c) /\ ~(after.connected /\ after.client)
                                  THEN "no_connection"
                                  ELSE IF after.active THEN "ran" ELSE "exec_failed"]
    /\ UNCHANGED <<connections, not_pool_vars>>

\* RemoteClientPool.close_all
CloseAll ==
    /\ clients' = [i \in 1..Len(clients) |->
                     IF \E j \in 1..Len(connections) : connections[j] = i
                     THEN Disconnected(clients[i]) ELSE clients[i]]
    /\ connections' = <<>>
    /\ cmd' = NoCmd
    /\ UNCHANGED not_pool_vars

\* the SSH transport of a connected client dies (network loss, server restart)
TransportDies(id) ==
    /\ id \in 1..Len(clients)
    /\ Live(clients[id])
    /\ clients' = [clients EXCEPT ![id].active = FALSE]
    /\ cmd' = NoCmd
    /\ UNCHANGED <<connections, not_pool_vars>>

PoolInit ==
    /\ clients = <<>>
    /\ connections = <<>>
    /\ cmd = NoCmd

-----------------------------------------------------------------------------
(* core/scanner.py (port checker) *)

ScanTypes == {"local", "remote"}

\* a ScanConfig: the scan type, the length of port_range, the result of validate()
ScanConfig(scan_type, ports, valid) ==
    [scan_type |-> scan_type, ports |-> ports, valid |-> valid]

NoScanConfig == ScanConfig("local", 0, FALSE)

ScanConfigs == {ScanConfig(t, n, v) : t \in ScanTypes, n \in 1..MaxPorts, v \in BOOLEAN}

\* each port is probed for one protocol
ProtocolCount == 1

\* scan_ports is called: start_time is taken
ScanEnter(config) ==
    /\ scan_pc = "idle"
    /\ scan_pc' = "entered"
    /\ scan_config' = config
    /\ next_port' = 1
    /\ submitted' = 0
    /\ completed' = 0
    /\ collected' = 0
    /\ stop_called' = FALSE
    /\ UNCHANGED <<stop_scan_flag, scan_result>>

\* scan_ports: the flag is reset, the configuration is validated
AfterReset(config) == IF config.valid THEN "submit" ELSE "returned"

ScanReset ==
    /\ scan_pc = "entered"
    /\ stop_scan_flag' = FALSE
    /\ scan_pc' = AfterReset(scan_config)
    /\ scan_result' = IF scan_config.valid THEN scan_result ELSE "failed"
    /\ UNCHANGED <<scan_config, next_port, submitted, completed, collected, stop_called>>

\* _scan_local_ports / _scan_remote_ports: one iteration of the submission loop
BreaksLoop == stop_scan_flag

SubmitPort ==
    /\ scan_pc = "submit"
    /\ next_port <= scan_config.ports
    /\ ~BreaksLoop
    /\ submitted' = submitted + ProtocolCount
    /\ next_port' = next_port + 1
    /\ UNCHANGED <<stop_scan_flag, scan_pc, scan_config, completed, collected,
                   scan_result, stop_called>>

\* the submission loop ends: port_range is exhausted or the flag is set
SubmitEnds ==
    /\ scan_pc = "submit"
    /\ next_port > scan_config.ports \/ BreaksLoop
    /\ scan_pc' = "collect"
    /\ UNCHANGED <<stop_scan_flag, scan_config, next_port, submitted, completed,
                   collected, scan_result, stop_called>>

\* a worker of the ThreadPoolExecutor finishes a probe
ProbeCompletes ==
    /\ scan_pc \in {"submit", "collect"}
    /\ completed < submitted
    /\ completed' = completed + 1
    /\ UNCHANGED <<stop_scan_flag, scan_pc, scan_config, next_port, submitted,
                   collected, scan_result, stop_called>>

\* one iteration of the collection loop: as_completed yields a finished probe
CollectResult ==
    /\ scan_pc = "collect"
    /\ collected < completed
    /\ ~BreaksLoop
    /\ collected' = collected + 1
    /\ UNCHANGED <<stop_scan_flag, scan_pc, scan_config, next_port, submitted,
                   completed, scan_result, stop_called>>

\* the collection loop ends, the executor is shut down (it waits for every
\* probe), scan_ports returns its result
CollectEnds ==
    /\ scan_pc = "collect"
    /\ collected = submitted \/ (collected < completed /\ BreaksLoop)
    /\ scan_pc' = "closing"
    /\ UNCHANGED <<stop_scan_flag, scan_config, next_port, submitted, completed,
                   collected, scan_result, stop_called>>

ProbeCompletesLate ==
    /\ scan_pc = "closing"
    /\ completed < submitted
    /\ completed' = completed + 1
    /\ UNCHANGED <<stop_scan_flag, scan_pc, scan_config, next_port, submitted,
                   collected, scan_result, stop_called>>

ScanReturns ==
    /\ scan_pc = "closing"
    /\ completed = submitted
    /\ scan_pc' = "returned"
    /\ scan_result' = "ok"
    /\ UNCHANGED <<stop_scan_flag, scan_config, next_port, submitted, completed,
                   collected, stop_called>>

\* an exception inside the try block of scan_ports: a failed ScanResult
ScanFails ==
    /\ scan_pc = "submit"
    /\ submitted = 0
    /\ scan_pc' = "returned"
    /\ scan_result' = "failed"
    /\ UNCHANGED <<stop_scan_flag, scan_config, next_port, submitted, completed,
                   collected, stop_called>>

\* an exception outside the try block (validate, logging): scan_ports raises
ScanRaises ==
    /\ scan_pc = "entered"
    /\ scan_pc' = "returned"
    /\ scan_result' = "raised"
    /\ UNCHANGED <<stop_scan_flag, scan_config, next_port, submitted, completed,
                   collected, stop_called>>

\* PortScanner.stop_scan
stop_scan ==
    /\ stop_scan_flag' = TRUE
    /\ stop_called' = (scan_pc \notin {"idle", "returned"})
    /\ UNCHANGED <<scan_pc, scan_config, next_port, submitted, completed, collected,
                   scan_result>>

\* is_scanning(): the negation of the stop flag, read under the lock
PortScanner_is_scanning == ~stop_scan_flag

\* the caller of scan_ports takes what it returned or raised
ScanTaken ==
    /\ scan_pc = "returned"
    /\ scan_pc' = "idle"
    /\ stop_called' = FALSE
    /\ UNCHANGED <<stop_scan_flag, scan_config, next_port, submitted, completed,
                   collected, scan_result>>

\* the steps of a scan_ports call in progress
ScanStep ==
    \/ ScanReset
    \/ SubmitPort
    \/ SubmitEnds
    \/ ProbeCompletes
    \/ CollectResult
    \/ CollectEnds
    \/ ProbeCompletesLate
    \/ ScanReturns

ScanInit ==
    /\ stop_scan_flag = FALSE
    /\ scan_pc = "idle"
    /\ scan_config = NoScanConfig
    /\ next_port = 1
    /\ submitted = 0
    /\ completed = 0
    /\ collected = 0
    /\ scan_result = "none"
    /\ stop_called = FALSE

-----------------------------------------------------------------------------
(* utils/clipboard.py (password manager) *)

ClipTexts == {"a", "b"}

\* a threading.Timer started by copy_text(text, n) with n > 0; pc is "waiting"
\* until the interval has passed or cancel() came first, then "fired",
\* "checked" (the comparison is done, the finally block is not), "done"
ClipTimer(text) == [text |-> text, pc |-> "waiting"]

is_alive(t) == t.pc \in {"waiting", "fired", "checked"}

\* Timer.cancel(): stops the timer only while it is still waiting
Cancelled(t) == IF t.pc = "waiting" THEN [t EXCEPT !.pc = "cancelled"] ELSE t

\* _cancel_clear_timer: the timers and _clear_timer it leaves
cancel_clear_timer ==
    IF clear_timer # 0 /\ is_alive(clip_timers[clear_timer])
    THEN [timers |-> [clip_timers EXCEPT ![clear_timer] = Cancelled(@)], clear_timer |-> 0]
    ELSE [timers |-> clip_timers, clear_timer |-> clear_timer]

\* copy_text(text, auto_clear_seconds) returning True; timed is auto_clear_seconds > 0
copy_text(text, timed) ==
    /\ timed => Len(clip_timers) < MaxTimers
    /\ clipboard' = Str(text)
    /\ last_copied_text' = Str(text)
    /\ clip_timers' = IF timed THEN Append(cancel_clear_timer.timers, ClipTimer(text))
                                ELSE cancel_clear_timer.timers
    /\ clear_timer' = IF timed THEN Len(clip_timers) + 1 ELSE cancel_clear_timer.clear_timer
    /\ placed' = IF timed THEN Len(clip_timers) + 1 ELSE 0

\* clear_clipboard() returning True
clear_clipboard ==
    /\ clipboard' = Str("")
    /\ last_copied_text' = None
    /\ clip_timers' = cancel_clear_timer.timers
    /\ clear_timer' = cancel_clear_timer.clear_timer
    /\ placed' = 0

\* the interval of timer k has passed: its thread calls _auto_clear_clipboard
TimerFires(k) ==
    /\ clip_timers[k].pc = "waiting"
    /\ clip_timers' = [clip_timers EXCEPT ![k].pc = "fired"]
    /\ UNCHANGED <<clipboard, last_copied_text, clear_timer, placed>>

\* _auto_clear_clipboard, the try block: the clipboard is blanked when it
\* equals _last_copied_text
AutoClearMatches == clipboard = last_copied_text

auto_clear_clipboard(k) ==
    /\ clip_timers[k].pc = "fired"
    /\ clipboard' = IF AutoClearMatches THEN Str("") ELSE clipboard
    /\ clip_timers' = [clip_timers EXCEPT ![k].pc = "checked"]
    /\ UNCHANGED <<last_copied_text, clear_timer, placed>>

\* _auto_clear_clipboard, the finally block
auto_clear_finally(k) ==
    /\ clip_timers[k].pc = "checked"
    /\ last_copied_text' = None
    /\ clear_timer' = 0
    /\ clip_timers' = [clip_timers EXCEPT ![k].pc = "done"]
    /\ UNCHANGED <<clipboard, placed>>

\* the user copies a text in another application
UserCopy(text) ==
    /\ clipboard' = Str(text)
    /\ placed' = 0
    /\ UNCHANGED <<last_copied_text, clear_timer, clip_timers>>

ClipInit ==
    /\ clipboard = Str("")
    /\ last_copied_text = None
    /\ clear_timer = 0
    /\ clip_timers = <<>>
    /\ placed = 0

-----------------------------------------------------------------------------
(* core/password_manager.py: extend_password_expiry *)

NoExtend == [entry_id |-> 0, days |-> 0, at |-> 0]

\* extend_password_expiry(entry_id, days): the fetched entry is the object of the
\* store, its expires_at is assigned in place, then update_password_entry is
\* called with the entry's own platform, username, decrypted password and notes
ExtendPasswordExpiry(entry_id, days, salt) ==
    /\ pc = "idle"
    /\ before' = None
    /\ extend' = [entry_id |-> entry_id, days |-> days, at |-> today]
    /\ IF ~is_loaded \/ IndexOfId(data_store, entry_id) = 0
       THEN /\ Return(Ret("extend_password_expiry", FALSE))
            /\ UNCHANGED data_store
       ELSE LET i == IndexOfId(data_store, entry_id)
                entry == data_store.entries[i]
                extended == [data_store EXCEPT !.entries[i].expires_at = today + days]
            IN  IF decrypt_password(entry) = None
                THEN /\ data_store' = extended
                     /\ Return(Ret("extend_password_expiry", FALSE))
                ELSE /\ data_store' = update_entry(extended, entry_id,
                                PasswordEntry(0, entry.platform, entry.username,
                                    json_dumps(encrypt_data(decrypt_password(entry),
                                                            master_password, salt)),
                                    entry.notes))
                     /\ BeginSave("extend_password_expiry", TRUE, TRUE)
    /\ UNCHANGED <<file, temp_file, backup_file, master_password, io_failures,
                   not_vault_vars, today, backup_vars>>

\* a day passes
DayPasses ==
    /\ today < MaxDay
    /\ today' = today + 1
    /\ UNCHANGED <<repo_vars, not_vault_vars, extend, backup_vars>>

ClockInit == today = 0 /\ extend = NoExtend

-----------------------------------------------------------------------------
(* core/backup_manager.py: _restore_data; core/models.py: search_entries *)

\* str.lower over the letters of the model
lower(text) == [i \in DOMAIN text |-> IF text[i] = "G" THEN "g" ELSE text[i]]

\* the Python test  term in text
Contains(text, term) ==
    \E i \in 0..(Len(text) - Len(term)) : SubSeq(text, i + 1, i + Len(term)) = term

Matches(entry, term) ==
    \/ Contains(lower(entry.platform), term)
    \/ Contains(lower(entry.username), term)
    \/ Contains(lower(entry.notes), term)

search_entries(store, search_term) ==
    IF search_term = <<>> THEN store.entries
    ELSE SelectSeq(store.entries, LAMBDA e : Matches(e, lower(search_term)))

\* the search term _restore_data builds: f"{platform} {username}"
SearchTerm(platform, username) == platform \o <<" ">> \o username

NoRestore == [platform |-> <<>>, username |-> <<>>, password |-> EmptyPassword,
              notes |-> <<>>, overwrite |-> FALSE, in_vault |-> FALSE]

\* one iteration of the loop of _restore_data, for the backup entry
\* (platform, username, password, notes); the call returns a success when the
\* entry is counted in restored_entries
RestoreEntry(platform, username, password, notes, overwrite, salt) ==
    /\ pc = "idle"
    /\ before' = None
    /\ LET existing_entries == IF ~is_loaded THEN <<>>
                                ELSE search_entries(data_store, SearchTerm(platform, username))
           matching == SelectSeq(existing_entries,
                                 LAMBDA e : e.platform = platform /\ e.username = username)
           entry_exists == matching # <<>>
           encrypted == json_dumps(encrypt_data(password, master_password, salt))
       IN  /\ restore' = [platform |-> platform, username |-> username,
                          password |-> password, notes |-> notes, overwrite |-> overwrite,
                          in_vault |-> is_loaded /\ ~add_entry_ok(data_store,
                                          [platform |-> platform, username |-> username])]
           /\ IF entry_exists /\ ~overwrite
              THEN /\ Return(Ret("restore_backup", FALSE))
                   /\ UNCHANGED data_store
              ELSE IF entry_exists
              THEN /\ data_store' = update_entry(data_store, matching[1].id,
                                        PasswordEntry(0, platform, username, encrypted, notes))
                   /\ BeginSave("restore_backup", TRUE, TRUE)
              ELSE IF is_loaded /\ add_entry_ok(data_store,
                                        [platform |-> platform, username |-> username])
              THEN /\ Len(data_store.entries) < MaxEntries
                   /\ data_store' = add_entry(data_store,
                                        PasswordEntry(uuid4(data_store), platform, username,
                                                      encrypted, notes))
                   /\ BeginSave("restore_backup", TRUE, TRUE)
              ELSE /\ Return(Ret("restore_backup", FALSE))
                   /\ UNCHANGED data_store
    /\ UNCHANGED <<file, temp_file, backup_file, master_password, io_failures,
                   not_vault_vars, clock_vars>>

BackupInit == restore = NoRestore

-----------------------------------------------------------------------------
(* gui/remote_config.py, gui/main_window.py: the Remote Config Dialog *)

ProfileNames == {<<"a">>, <<"b">>}

RemoteConfig(name, password) ==
    [name |-> name, host |-> "h", username |-> "u", password |-> password]

\* the two list objects in use: the caller's and the dialog's
ListRefs == 1..2

\* remote_configs.copy(): a new list object with the same elements
AliasedList(ref) == ref

CopiedList(ref) == 3 - ref

\* save_remote_configs: the profiles written, their passwords blanked
PlainProfiles(configs) == configs

SavedProfiles(configs) == [i \in 1..Len(configs) |-> [configs[i] EXCEPT !.password = ""]]

ClosedDialog == [open |-> FALSE, configs |-> 1, selection |-> 0, closed_by |-> "none",
                 original |-> <<>>, file_at_open |-> <<>>]

\* _show_remote_config up to wait_window: RemoteConfigDialog.__init__
ShowRemoteConfig ==
    /\ ~dialog.open
    /\ list_objects' = [list_objects EXCEPT ![CopiedList(remote_configs)] =
                                                list_objects[remote_configs]]
    /\ dialog' = [open |-> TRUE, configs |-> CopiedList(remote_configs), selection |-> 0,
                  closed_by |-> "none", original |-> list_objects[remote_configs],
                  file_at_open |-> remote_config_file]
    /\ UNCHANGED <<remote_configs, remote_config_file>>

\* the user selects a row of the list
SelectConfig(i) ==
    /\ dialog.open
    /\ i \in 1..Len(list_objects[dialog.configs])
    /\ dialog' = [dialog EXCEPT !.selection = i]
    /\ UNCHANGED <<list_objects, remote_configs, remote_config_file>>

\* _new_config: the form and the selection are cleared
NewConfig ==
    /\ dialog.open
    /\ dialog' = [dialog EXCEPT !.selection = 0]
    /\ UNCHANGED <<list_objects, remote_configs, remote_config_file>>

\* _save_config with a valid form: the selected profile is replaced or a new one is
\* appended; reloading the tree drops the selection, a new profile is selected
SaveConfig(config) ==
    /\ dialog.open
    /\ IF dialog.selection # 0
       THEN /\ list_objects' = [list_objects EXCEPT ![dialog.configs][dialog.selection] = config]
            /\ dialog' = [dialog EXCEPT !.selection = 0]
       ELSE /\ Len(list_objects[dialog.configs]) < MaxProfiles
            /\ list_objects' = [list_objects EXCEPT ![dialog.configs] = Append(@, config)]
            /\ dialog' = [dialog EXCEPT !.selection = Len(list_objects[dialog.configs]) + 1]
    /\ UNCHANGED <<remote_configs, remote_config_file>>

\* _delete_config, confirmed
DeleteConfig ==
    /\ dialog.open
    /\ dialog.selection # 0
    /\ list_objects' = [list_objects EXCEPT ![dialog.configs] = RemoveAt(@, dialog.selection)]
    /\ dialog' = [dialog EXCEPT !.selection = 0]
    /\ UNCHANGED <<remote_configs, remote_config_file>>

\* _copy_config: a duplicate of the selected profile is appended and selected
CopyConfig ==
    /\ dialog.open
    /\ dialog.selection # 0
    /\ Len(list_objects[dialog.configs]) < MaxProfiles
    /\ Len(list_objects[dialog.configs][dialog.selection].name) < MaxNameLen
    /\ list_objects' = [list_objects EXCEPT ![dialog.configs] =
            Append(@, [@[dialog.selection] EXCEPT !.name = @ \o <<"_copy">>])]
    /\ dialog' = [dialog EXCEPT !.selection = Len(list_objects[dialog.configs]) + 1]
    /\ UNCHANGED <<remote_configs, remote_config_file>>

\* _show_remote_config after wait_window: the test  if dialog.result
ResultIsTruthy(result) == result # <<>>

\* _ok_clicked, then the rest of _show_remote_config
OkClicked ==
    /\ dialog.open
    /\ dialog' = [dialog EXCEPT !.open = FALSE, !.closed_by = "ok"]
    /\ IF ResultIsTruthy(list_objects[dialog.configs])
       THEN /\ remote_configs' = dialog.configs
            /\ remote_config_file' = SavedProfiles(list_objects[dialog.configs])
       ELSE UNCHANGED <<remote_configs, remote_config_file>>
    /\ UNCHANGED list_objects

\* _cancel_clicked, then the rest of _show_remote_config: result is None
CancelClicked ==
    /\ dialog.open
    /\ dialog' = [dialog EXCEPT !.open = FALSE, !.closed_by = "cancel"]
    /\ UNCHANGED <<list_objects, remote_configs, remote_config_file>>

DialogInit ==
    /\ list_objects = [r \in ListRefs |-> <<>>]
    /\ remote_configs = 1
    /\ remote_config_file = <<>>
    /\ dialog = ClosedDialog

-----------------------------------------------------------------------------
(* gui/main_window.py: starting and stopping a scan *)

NoThread == [pc |-> "none", config |-> NoScanConfig]

\* _scan_finished: the state it gives the flag and the two buttons
StillScanning == [is_scanning |-> is_scanning, scan_button |-> scan_button,
                  stop_button |-> stop_button]

scan_finished == [is_scanning |-> FALSE, scan_button |-> "normal", stop_button |-> "disabled"]

\* _start_scan with a configuration that validates: the worker thread is started
StartScan(config) ==
    /\ ~is_scanning
    /\ is_scanning' = TRUE
    /\ scan_button' = "disabled"
    /\ stop_button' = "normal"
    /\ scan_thread' = [pc |-> "started", config |-> config]
    /\ UNCHANGED <<after_call, scan_vars>>

\* _stop_scan
GuiStopScan ==
    /\ is_scanning
    /\ stop_scan
    /\ UNCHANGED gui_vars

\* _scan_worker: the thread calls scanner.scan_ports
WorkerCallsScan ==
    /\ scan_thread.pc = "started"
    /\ ScanEnter(scan_thread.config)
    /\ scan_thread' = [scan_thread EXCEPT !.pc = "scanning"]
    /\ UNCHANGED <<is_scanning, scan_button, stop_button, after_call>>

\* _scan_worker: scan_ports returned or raised, the callback is handed to root.after
WorkerPosts ==
    /\ scan_thread.pc = "scanning"
    /\ ScanTaken
    /\ after_call' = IF scan_result = "raised" THEN "scan_error" ELSE "scan_completed"
    /\ scan_thread' = NoThread
    /\ UNCHANGED <<is_scanning, scan_button, stop_button>>

\* the Tk event loop runs _scan_completed or _scan_error, which ends with
\* _scan_finished
TkRunsCallback ==
    /\ after_call # "none"
    /\ after_call' = "none"
    /\ is_scanning' = scan_finished.is_scanning
    /\ scan_button' = scan_finished.scan_button
    /\ stop_button' = scan_finished.stop_button
    /\ UNCHANGED <<scan_thread, scan_vars>>

\* a step of the scan_ports call of the worker thread
WorkerScans == ScanStep /\ UNCHANGED gui_vars

GuiInit ==
    /\ is_scanning = FALSE
    /\ scan_button = "normal"
    /\ stop_button = "disabled"
    /\ scan_thread = NoThread
    /\ after_call = "none"

-----------------------------------------------------------------------------
(* cli/command_line.py, models/data_models.py: a scan requested on the command line *)

MAX_PORT == 65535

PortValues == {0, 1, MAX_PORT, MAX_PORT + 1}

\* the texts of a port specification: a number, "a-b", or a text int() rejects
PortItem(p) == [kind |-> "port", a |-> p, b |-> p]
RangeItem(a, b) == [kind |-> "range", a |-> a, b |-> b]
BadItem == [kind |-> "bad", a |-> 0, b |-> 0]

PortItems == {PortItem(p) : p \in PortValues}
                 \cup {RangeItem(a, b) : a \in PortValues, b \in PortValues}
                 \cup {BadItem}

InRange(p) == 1 <= p /\ p <= MAX_PORT

\* a list of ports is kept as the list of the intervals a..b it is made of
Interval(a, b) == [a |-> a, b |-> b]

\* _parse_port_range, --ports: the ports one item contributes; an item out of
\* bounds contributes none
ItemPorts(item) ==
    IF item.kind = "range"
    THEN IF item.a <= item.b /\ InRange(item.a) /\ InRange(item.b)
         THEN <<Interval(item.a, item.b)>> ELSE <<>>
    ELSE IF InRange(item.a) THEN <<Interval(item.a, item.a)>> ELSE <<>>

RECURSIVE PortsOf(_)
PortsOf(items) ==
    IF items = <<>> THEN <<>> ELSE ItemPorts(Head(items)) \o PortsOf(Tail(items))

\* _parse_port_range: the ports of the list returned, <<>> for None
parse_port_range(args) ==
    IF args.opt = "port"
    THEN (IF args.items[1].a # 0 THEN <<Interval(args.items[1].a, args.items[1].a)>> ELSE <<>>)
    ELSE IF \E i \in 1..Len(args.items) : args.items[i].kind = "bad" THEN <<>>
    ELSE IF args.opt = "range"
    THEN (IF args.items[1].kind = "range"
          THEN (IF args.items[1].a > args.items[1].b \/ args.items[1].a < 1
                      \/ args.items[1].b > MAX_PORT
                THEN <<>> ELSE <<Interval(args.items[1].a, args.items[1].b)>>)
          ELSE IF InRange(args.items[1].a)
               THEN <<Interval(args.items[1].a, args.items[1].a)>> ELSE <<>>)
    ELSE PortsOf(args.items)

\* ScanConfig.__post_init__: the ports kept (the intervals built by the parser lie
\* inside or outside 1-65535 as a whole)
PostInitPorts(ports) == SelectSeq(ports, LAMBDA r : InRange(r.a) /\ InRange(r.b))

NoCli == [args |-> [opt |-> "", items |-> <<>>], exit_code |-> 0, scanned |-> FALSE]

\* _handle_port_scan, the one request of a run of the program; scan_ok is the
\* success of the ScanResult
HandlePortScan(args, scan_ok) ==
    LET port_range == parse_port_range(args)
        config_ok == port_range # <<>> /\ PostInitPorts(port_range) # <<>>
    IN  /\ cli = NoCli
        /\ cli' = [args |-> args,
                   exit_code |-> IF config_ok /\ scan_ok THEN 0 ELSE 1,
                   scanned |-> config_ok]

CliArgs ==
    {[opt |-> "port", items |-> <<PortItem(p)>>] : p \in PortValues}
        \cup {[opt |-> "range", items |-> <<i>>] : i \in PortItems}
        \cup {[opt |-> "ports", items |-> s] :
                 s \in UNION {[1..n -> PortItems] : n \in 1..MaxItems}}

CliInit == cli = NoCli

-----------------------------------------------------------------------------
(* utils/config.py: the saved profile file *)

Hosts == {"h", "k"}

\* load_remote_configs: a RemoteConfig for every item of the file
load_remote_configs == remote_config_file

SameKey(config, host, username) == config.host = host /\ config.username = username

\* the index of the first profile with this (host, username), 0 if there is none
FirstWithKey(configs, host, username) ==
    IF \E i \in 1..Len(configs) : SameKey(configs[i], host, username)
    THEN CHOOSE i \in 1..Len(configs) :
            /\ SameKey(configs[i], host, username)
            /\ \A j \in 1..(i - 1) : ~SameKey(configs[j], host, username)
    ELSE 0

NoConfigCall == [op |-> "", host |-> "", username |-> "", result |-> FALSE, n |-> 0]

ConfigCall(op, host, username, result) ==
    [op |-> op, host |-> host, username |-> username, result |-> result,
     n |-> 1 - config_call.n]

\* add_remote_config(config); saved is FALSE when the file cannot be written
AddRemoteConfig(config, saved) ==
    LET configs == load_remote_configs
        i == FirstWithKey(configs, config.host, config.username)
        updated == IF i # 0 THEN [configs EXCEPT ![i] = config] ELSE Append(configs, config)
    IN  /\ i = 0 => Len(configs) < MaxProfiles
        /\ remote_config_file' = IF saved THEN SavedProfiles(updated) ELSE remote_config_file
        /\ config_call' = ConfigCall("add_remote_config", config.host, config.username, saved)
        /\ UNCHANGED <<list_objects, remote_configs, dialog>>

\* remove_remote_config(host, username)
RemoveRemoteConfig(host, username, saved) ==
    LET configs == load_remote_configs
        i == FirstWithKey(configs, host, username)
    IN  /\ remote_config_file' = IF i # 0 /\ saved THEN SavedProfiles(RemoveAt(configs, i))
                                                    ELSE remote_config_file
        /\ config_call' = ConfigCall("remove_remote_config", host, username, i # 0 /\ saved)
        /\ UNCHANGED <<list_objects, remote_configs, dialog>>

ConfigInit == config_call = NoConfigCall

-----------------------------------------------------------------------------
(* core/remote_client.py: kill_remote_process *)

Pids == 1..MaxPids

\* what execute_command returns for  ps -p <pid> --no-headers
ps(pid) == IF remote_procs[pid] THEN [exit_code |-> 0, stdout |-> "line"]
                                ELSE [exit_code |-> 1, stdout |-> ""]

\* the test made on the output of ps, before and after the signal
NeverGone(r) == FALSE

ProcessGone(r) == r.exit_code # 0 \/ r.stdout = ""

NoKill == [pc |-> "idle", pid |-> 0, force |-> FALSE, found_before |-> FALSE,
           kill_exit |-> -1, rechecked |-> FALSE, found_after |-> FALSE,
           returned |-> FALSE, success |-> FALSE]

KillReturns(k, success) == [k EXCEPT !.pc = "idle", !.returned = TRUE, !.success = success]

\* kill_remote_process(pid, force): the existence check; raises is an exception of
\* execute_command
KillCheck(pid, force, raises) ==
    /\ kill.pc = "idle"
    /\ LET k == [NoKill EXCEPT !.pid = pid, !.force = force]
       IN  kill' = IF raises THEN KillReturns(k, FALSE)
                   ELSE IF ProcessGone(ps(pid)) THEN KillReturns(k, FALSE)
                   ELSE [k EXCEPT !.pc = "checked", !.found_before = remote_procs[pid]]
    /\ UNCHANGED remote_procs

\* the kill command: it exits with 0 when the signal was sent; SIGKILL ends the
\* process, SIGTERM ends it unless the process ignores it
KillSignal(permitted, obeys, raises) ==
    /\ kill.pc = "checked"
    /\ LET sent == remote_procs[kill.pid] /\ permitted
           exit_code == IF sent THEN 0 ELSE 1
       IN  IF raises
           THEN /\ kill' = KillReturns(kill, FALSE)
                /\ UNCHANGED remote_procs
           ELSE /\ remote_procs' = IF sent /\ (kill.force \/ obeys)
                                   THEN [remote_procs EXCEPT ![kill.pid] = FALSE]
                                   ELSE remote_procs
                /\ kill' = IF exit_code = 0
                           THEN [kill EXCEPT !.pc = "killed", !.kill_exit = exit_code]
                           ELSE KillReturns([kill EXCEPT !.kill_exit = exit_code], FALSE)

\* after the wait of one second: the existence check again
KillRecheck(raises) ==
    /\ kill.pc = "killed"
    /\ kill' = IF raises THEN KillReturns(kill, FALSE)
               ELSE KillReturns([kill EXCEPT !.rechecked = TRUE,
                                             !.found_after = remote_procs[kill.pid]],
                                ProcessGone(ps(kill.pid)))
    /\ UNCHANGED remote_procs

\* a process of the remote host starts or exits by itself
RemoteProcessChanges(pid) ==
    /\ remote_procs' = [remote_procs EXCEPT ![pid] = ~@]
    /\ UNCHANGED kill

KillInit == remote_procs = [p \in Pids |-> FALSE] /\ kill = NoKill

-----------------------------------------------------------------------------
(* core/process_manager.py: terminate_process *)

MaxLocalPids == 3
LocalPids == 1..MaxLocalPids

\* the name of the process with this pid: pid 1 is the init process
ProcessName(pid) == IF pid = 1 THEN "systemd" ELSE "app"

\* is_protected_process: PID 1 and the well-known system process names
is_protected_process(pid) == pid = 1 \/ ProcessName(pid) \in {"systemd", "init", "kernel"}

NoTerm == [pid |-> 0, force |-> FALSE, returned |-> FALSE, success |-> FALSE,
           message |-> "", signal |-> "none"]

\* terminate_process(pid, force); allowed is FALSE when psutil raises AccessDenied
terminate_process(pid, force, allowed) ==
    LET t == [NoTerm EXCEPT !.pid = pid, !.force = force, !.returned = TRUE]
    IN  IF local_procs[pid] = "none"
        THEN /\ term_call' = [t EXCEPT !.message = "no_such_process"]
             /\ UNCHANGED local_procs
        ELSE IF ~allowed
        THEN /\ term_call' = [t EXCEPT !.message = "access_denied"]
             /\ UNCHANGED local_procs
        ELSE IF force
        THEN /\ term_call' = [t EXCEPT !.success = TRUE, !.message = "killed", !.signal = "kill"]
             /\ local_procs' = [local_procs EXCEPT ![pid] = "none"]
        ELSE /\ term_call' = [t EXCEPT !.success = TRUE, !.message = "terminated",
                                   !.signal = "terminate"]
             /\ local_procs' = [local_procs EXCEPT ![pid] = "terminating"]

\* a process starts, or a process that received SIGTERM exits
LocalProcessChanges(pid) ==
    /\ local_procs[pid] # "running"
    /\ local_procs' = [local_procs EXCEPT ![pid] = IF @ = "none" THEN "running" ELSE "none"]
    /\ UNCHANGED term_call

TermInit == local_procs = [p \in LocalPids |-> IF p = 1 THEN "running" ELSE "none"] /\ term_call = NoTerm

-----------------------------------------------------------------------------
(* security/crypto.py: the bytes encrypt_data and decrypt_data work on *)

MaxTextLen == 2
block_size == 16
TextBytes == {65, 66}
Plaintexts == UNION {[1..n -> TextBytes] : n \in 0..MaxTextLen}
CryptoPasswords == {"p", "q"}

Repeat(b, n) == [i \in 1..n |-> b]

\* PKCS7: between 1 and block_size bytes, each holding their number
pad_data(data) ==
    LET padding_length == block_size - (Len(data) % block_size)
    IN  data \o Repeat(padding_length, padding_length)

\* data[:-data[-1]] as Python slices: an empty result when the last byte is 0
\* or exceeds the length; no check that the padding is well formed
unpad_data(data) ==
    LET padding_length == data[Len(data)]
    IN  IF padding_length = 0 \/ padding_length >= Len(data)
        THEN <<>>
        ELSE SubSeq(data, 1, Len(data) - padding_length)

\* bytes.decode('utf-8') over the bytes of the model: the ASCII bytes decode,
\* 200 and 255 never begin a valid sequence here
DecodesAsUtf8(data) == \A i \in DOMAIN data : data[i] < 128

\* The blocks AES-CBC decryption with another key yields: some bytes of the
\* ciphertext's length, any last byte
WrongKeyBlocks(n) ==
    {Repeat(filler, n - 1) \o <<last>> : filler \in {65, 200}, last \in {0, 1, block_size, 255}}

NoEnvelope == [password |-> "", encrypted_data |-> <<>>, plaintext |-> <<>>]
NoDecrypt == [called |-> FALSE, password |-> "", decrypted_data |-> <<>>, result |-> None]

\* encrypt_data(data, password); the ciphertext is kept as the padded bytes
\* under the key of the password
EncryptBytes(data, password) ==
    /\ envelope' = [password |-> password, encrypted_data |-> pad_data(data),
                    plaintext |-> data]
    /\ decrypted' = NoDecrypt

\* decrypt_data(envelope, password); wrong is what the cipher yields when the
\* key is not the one of the envelope
DecryptResult(decrypted_data) ==
    IF Len(decrypted_data) = 0 THEN None
    ELSE LET unpadded_data == unpad_data(decrypted_data)
         IN  IF DecodesAsUtf8(unpadded_data) THEN Str(unpadded_data) ELSE None

DecryptBytes(password, wrong) ==
    /\ envelope # NoEnvelope
    /\ wrong \in WrongKeyBlocks(Len(envelope.encrypted_data))
    /\ LET decrypted_data == IF password = envelope.password
                             THEN envelope.encrypted_data ELSE wrong
       IN  decrypted' = [called |-> TRUE, password |-> password,
                         decrypted_data |-> decrypted_data,
                         result |-> DecryptResult(decrypted_data)]
    /\ UNCHANGED envelope

CryptoInit == envelope = NoEnvelope /\ decrypted = NoDecrypt

-----------------------------------------------------------------------------
(* core/scanner.py: what the probes of a scan put into its result *)

MaxProbePorts == 2
ProbePorts == 1..MaxProbePorts
Protocols == {"TCP", "UDP"}
ProtocolLists == {<<"TCP">>, <<"UDP">>, <<"TCP", "UDP">>}
ConnectResults == {0, 111}

PortInfo(port, status, protocol) == [port |-> port, status |-> status, protocol |-> protocol]

is_occupied(port_info) == port_info.status \in {"LISTEN", "ESTABLISHED"}

\* a probe that reports a port it could not connect to as closed
scan_tcp_port_closed(port, system_connections, connect_ex) ==
    IF <<port, "TCP">> \in system_connections THEN PortInfo(port, "LISTEN", "TCP")
    ELSE IF connect_ex = 0 THEN PortInfo(port, "ESTABLISHED", "TCP")
    ELSE PortInfo(port, "CLOSED", "TCP")
\* _scan_tcp_port: the system's system_connections first, then a connect
scan_tcp_port(port, system_connections, connect_ex) ==
    IF <<port, "TCP">> \in system_connections THEN PortInfo(port, "LISTEN", "TCP")
    ELSE IF connect_ex = 0 THEN PortInfo(port, "ESTABLISHED", "TCP")
    ELSE None

\* _scan_udp_port: the system's system_connections only
scan_udp_port(port, system_connections) ==
    IF <<port, "UDP">> \in system_connections THEN PortInfo(port, "LISTEN", "UDP") ELSE None

scan_single_port(port, protocol, system_connections, connect_ex) ==
    IF protocol = "TCP" THEN scan_tcp_port(port, system_connections, connect_ex)
    ELSE scan_udp_port(port, system_connections)

\* _scan_remote_single_port: a TCP connect, nothing for UDP
scan_remote_single_port(port, protocol, connect_ex) ==
    IF protocol = "TCP" /\ connect_ex = 0 THEN PortInfo(port, "ESTABLISHED", "TCP") ELSE None

\* ScanResult and its __post_init__
ScanResult(port_info_list, success) ==
    [port_info_list |-> port_info_list, success |-> success,
     total_ports |-> Len(port_info_list),
     occupied_ports |-> Cardinality({i \in DOMAIN port_info_list :
                                        is_occupied(port_info_list[i])})]

free_ports(result) == result.total_ports - result.occupied_ports

NoProbe == [pc |-> "idle", scan_type |-> "local", protocols |-> <<>>, connections |-> {},
            port |-> 1, protocol |-> 1, port_info_list |-> <<>>]
NoScanResult == [returned |-> FALSE, result |-> ScanResult(<<>>, FALSE)]

\* scan_ports with a valid config of the ports 1..MaxProbePorts
ProbeStart(scan_type, protocols, system_connections) ==
    /\ probe.pc = "idle"
    /\ probe' = [NoProbe EXCEPT !.pc = "scanning", !.scan_type = scan_type,
                                !.protocols = protocols,
                                !.connections = IF scan_type = "local" THEN system_connections ELSE {}]
    /\ scan_returned' = NoScanResult

\* the probe of the next port and protocol completes and its result is collected
ProbePort(connect_ex) ==
    /\ probe.pc = "scanning"
    /\ probe.port <= MaxProbePorts
    /\ LET protocol == probe.protocols[probe.protocol]
           port_info == IF probe.scan_type = "local"
                        THEN scan_single_port(probe.port, protocol, probe.connections,
                                              connect_ex)
                        ELSE scan_remote_single_port(probe.port, protocol, connect_ex)
           last == probe.protocol = Len(probe.protocols)
       IN  probe' = [probe EXCEPT
                        !.port_info_list = IF port_info # None THEN Append(@, port_info) ELSE @,
                        !.protocol = IF last THEN 1 ELSE @ + 1,
                        !.port = IF last THEN @ + 1 ELSE @]
    /\ UNCHANGED scan_returned

\* scan_ports returns the result; stopped is a stop_scan() that ended the loops early
ProbeReturn(stopped) ==
    /\ probe.pc = "scanning"
    /\ stopped \/ probe.port > MaxProbePorts
    /\ scan_returned' = [returned |-> TRUE, result |-> ScanResult(probe.port_info_list, TRUE)]
    /\ probe' = [probe EXCEPT !.pc = "idle"]

\* scan_ports catches an exception of the scan
ProbeFails ==
    /\ probe.pc = "scanning"
    /\ scan_returned' = [returned |-> TRUE, result |-> ScanResult(<<>>, FALSE)]
    /\ probe' = [probe EXCEPT !.pc = "idle"]

ProbeInit == probe = NoProbe /\ scan_returned = NoScanResult

ToolInit == PoolInit /\ ScanInit /\ ClipInit /\ ClockInit /\ BackupInit /\ DialogInit /\ GuiInit /\ CliInit /\ ConfigInit /\ KillInit /\ TermInit /\ CryptoInit /\ ProbeInit

-----------------------------------------------------------------------------
(* A scanner used directly: scan_ports calls with stop_scan calls from another thread *)
NextScan ==
    \/ \E config \in ScanConfigs : ScanEnter(config) /\ UNCHANGED not_scan_vars
    \/ ScanStep /\ UNCHANGED not_scan_vars
    \/ ScanFails /\ UNCHANGED not_scan_vars
    \/ ScanRaises /\ UNCHANGED not_scan_vars
    \/ stop_scan /\ UNCHANGED not_scan_vars
    \/ ScanTaken /\ UNCHANGED not_scan_vars

(* A clipboard manager, its timer threads and the user *)
NextClip ==
    \/ \E text \in ClipTexts, timed \in BOOLEAN : copy_text(text, timed) /\ UNCHANGED not_clip_vars
    \/ clear_clipboard /\ UNCHANGED not_clip_vars
    \/ \E k \in 1..Len(clip_timers) : TimerFires(k) /\ UNCHANGED not_clip_vars
    \/ \E k \in 1..Len(clip_timers) : auto_clear_clipboard(k) /\ UNCHANGED not_clip_vars
    \/ \E k \in 1..Len(clip_timers) : auto_clear_finally(k) /\ UNCHANGED not_clip_vars
    \/ \E text \in ClipTexts : UserCopy(text) /\ UNCHANGED not_clip_vars

(* The vault files a repository may be constructed over *)

StoredEntry(id, platform, password, key_password, salt) ==
    PasswordEntry(id, platform, <<"u">>,
                  json_dumps(encrypt_data(password, key_password, salt)), <<>>)

VaultFile(entries, password, salt) ==
    encrypt_data(
        json_dumps(to_dict([NewDataStore EXCEPT
            !.entries = entries,
            !.master_config = MasterConfig(hash_password(password, salt).hash,
                                           hash_password(password, salt).salt)])),
        password, salt)

\* a vault saved earlier under m1
ExistingVault ==
    VaultFile(<<StoredEntry(1, <<"g">>, Str("x"), Str("m1"), "s1")>>, Str("m1"), "s1")

\* a vault under m1 whose second entry carries a ciphertext that m1 does not open
DamagedVault ==
    VaultFile(<<StoredEntry(1, <<"g">>, Str("x"), Str("m1"), "s1"),
                StoredEntry(2, <<"h">>, Str("y"), Str("m2"), "s1")>>, Str("m1"), "s1")

InitWith(vaults) ==
    /\ ToolInit
    /\ file \in vaults
    /\ temp_file = None
    /\ backup_file = "none"
    /\ data_store = None
    /\ master_password = None
    /\ pc = "idle"
    /\ call = NoCall
    /\ ret = Ret("", FALSE)
    /\ before = None
    /\ io_failures = 0
    /\ is_authenticated = FALSE
    /\ failed_attempts = 0
    /\ lockout_until = None
    /\ auto_lock_timer = None
    /\ auto_lock_timeout = DEFAULT_AUTO_LOCK_TIMEOUT
    /\ on_auto_lock_callback = FALSE
    /\ orphan_timers = 0
    /\ activity = 0
    /\ session_end = "none"

\* _save_to_file when every file operation succeeds
SaveStep ==
    \/ \E salt \in Salts : WriteTemp(salt)
    \/ BackupExisting
    \/ MoveTemp

\* _save_to_file when a file operation raises
SaveStepFails ==
    \/ WriteTempFails
    \/ BackupFails
    \/ MoveFails

(* The repository on its own *)
InitVault == InitWith({None, DamagedVault})

NextVault ==
    \/ \E p \in MasterPasswords, salt \in Salts : InitializeNewDatabase(p, salt)
    \/ \E p \in MasterPasswords : LoadDatabase(p)
    \/ \E platform \in Platforms, username \in Usernames, p \in EntryPasswords,
          salt \in Salts : AddPasswordEntry(platform, username, p, salt)
    \/ \E id \in 1..MaxEntries, platform \in Platforms, username \in Usernames,
          p \in EntryPasswords, salt \in Salts :
            UpdatePasswordEntry(id, platform, username, p, salt)
    \/ \E id \in 1..MaxEntries : DeletePasswordEntry(id)
    \/ \E theme \in Themes : UpdateAppSettings(theme)
    \/ \E old \in MasterPasswords, new \in MasterPasswords,
          salts \in [1..MaxEntries -> Salts], hash_salt \in Salts :
            ChangeMasterPassword(old, new, salts, hash_salt)
    \/ SaveStep

SpecVault == InitVault /\ [][NextVault]_vars

(* The repository on a disk that can fail *)
InitDisk == InitWith({None})

NextDisk ==
    \/ \E salt \in Salts : InitializeNewDatabase(Str("m1"), salt)
    \/ \E platform \in Platforms, username \in Usernames, salt \in Salts :
          AddPasswordEntry(platform, username, Str("x"), salt)
    \/ \E id \in 1..MaxEntries, platform \in Platforms, username \in Usernames,
          salt \in Salts : UpdatePasswordEntry(id, platform, username, Str("x"), salt)
    \/ \E id \in 1..MaxEntries : DeletePasswordEntry(id)
    \/ \E theme \in Themes : UpdateAppSettings(theme)
    \/ SaveStep
    \/ SaveStepFails

SpecDisk == InitDisk /\ [][NextDisk]_vars

(* The authentication service in front of the repository *)
InitAuth == InitWith({None, ExistingVault})

AdvanceSteps == {r - k : r \in Pending, k \in 0..TicksPerSecond}

TimerThread ==
    \/ TimerExpire
    \/ AutoLock
    \/ AutoLockOrphan

NextAuth ==
    \/ \E p \in MasterPasswords, salt \in Salts : InitializeNewDatabase(p, salt)
    \/ SaveStep
    \/ \E p \in MasterPasswords \cup {EmptyPassword} : Authenticate(p)
    \/ IsLockedOut
    \/ Logout
    \/ UpdateActivity
    \/ \E n \in Timeouts : SetAutoLockTimeout(n)
    \/ \E b \in BOOLEAN : SetAutoLockCallback(b)
    \/ ResetFailedAttempts
    \/ TimerThread
    \/ \E d \in AdvanceSteps : Advance(d)

SpecAuth == InitAuth /\ [][NextAuth]_vars

(* The connection pool and the clients it hands out *)
InitPool == InitWith({None})

NextPool ==
    \/ \E key \in Keys : GetClient(key)
    \/ \E id \in 1..MaxClients, reachable \in BOOLEAN : Connect(id, reachable)
    \/ \E id \in 1..MaxClients : Disconnect(id)
    \/ \E id \in 1..MaxClients : ExecuteCommand(id, TRUE)
    \/ CloseAll

SpecPool == InitPool /\ [][NextPool]_vars

(* One host, whose connections can die *)
NextClient ==
    \/ GetClient(1)
    \/ \E id \in 1..MaxClients, reachable \in BOOLEAN : Connect(id, reachable)
    \/ \E id \in 1..MaxClients : Disconnect(id)
    \/ \E id \in 1..MaxClients, reachable \in BOOLEAN : ExecuteCommand(id, reachable)
    \/ \E id \in 1..MaxClients : TransportDies(id)

SpecClient == InitPool /\ [][NextClient]_vars

(* A scanner over an empty working directory *)
InitScan == InitWith({None})

SpecScan == InitScan /\ [][NextScan]_vars

SpecClip == InitScan /\ [][NextClip]_vars

(* A vault whose entries are added and extended as the days pass *)
Days == {1, default_expiry_days}

NextExpiry ==
    \/ \E salt \in Salts : InitializeNewDatabase(Str("m1"), salt)
    \/ \E platform \in Platforms, username \in Usernames, salt \in Salts :
            AddPasswordEntry(platform, username, Str("x"), salt)
    \/ \E id \in 1..MaxEntries, days \in Days, salt \in Salts :
            ExtendPasswordExpiry(id, days, salt)
    \/ DayPasses
    \/ SaveStep

SpecExpiry == InitScan /\ [][NextExpiry]_vars

(* A vault into which backup entries are restored *)
BackupNotes == {<<>>, SearchTerm(<<"g">>, <<"u">>)}

NextRestore ==
    \/ \E salt \in Salts : InitializeNewDatabase(Str("m1"), salt)
    \/ \E platform \in Platforms, username \in Usernames, salt \in Salts :
            AddPasswordEntry(platform, username, Str("x"), salt)
    \/ \E platform \in Platforms, username \in Usernames, p \in EntryPasswords,
          notes \in BackupNotes, overwrite \in BOOLEAN, salt \in Salts :
            RestoreEntry(platform, username, p, notes, overwrite, salt)
    \/ SaveStep

SpecRestore == InitScan /\ [][NextRestore]_vars

(* The main window and its Remote Config Dialog *)
NextDialog ==
    \/ ShowRemoteConfig /\ UNCHANGED not_dialog_vars
    \/ \E i \in 1..MaxProfiles : SelectConfig(i) /\ UNCHANGED not_dialog_vars
    \/ NewConfig /\ UNCHANGED not_dialog_vars
    \/ \E name \in ProfileNames : SaveConfig(RemoteConfig(name, "p")) /\ UNCHANGED not_dialog_vars
    \/ DeleteConfig /\ UNCHANGED not_dialog_vars
    \/ CopyConfig /\ UNCHANGED not_dialog_vars
    \/ OkClicked /\ UNCHANGED not_dialog_vars
    \/ CancelClicked /\ UNCHANGED not_dialog_vars

SpecDialog == InitScan /\ [][NextDialog]_vars

(* The command line of the port checker *)
NextCli ==
    \E args \in CliArgs, scan_ok \in BOOLEAN :
        HandlePortScan(args, scan_ok) /\ UNCHANGED not_cli_vars

SpecCli == InitScan /\ [][NextCli]_vars

(* The saved profile file, written by the main window after the dialog and by *)
(* the Configuration Manager                                                  *)
NextConfig ==
    \/ ShowRemoteConfig /\ UNCHANGED not_dialog_vars
    \/ SaveConfig(RemoteConfig(<<"a">>, "p")) /\ UNCHANGED not_dialog_vars
    \/ CopyConfig /\ UNCHANGED not_dialog_vars
    \/ OkClicked /\ UNCHANGED not_dialog_vars
    \/ \E host \in Hosts, saved \in BOOLEAN :
            AddRemoteConfig([RemoteConfig(<<"b">>, "p") EXCEPT !.host = host], saved)
                /\ UNCHANGED not_profile_vars
    \/ \E host \in Hosts, saved \in BOOLEAN :
            RemoveRemoteConfig(host, "u", saved) /\ UNCHANGED not_profile_vars

SpecConfig == InitScan /\ [][NextConfig]_vars

(* A remote host and a client ending its processes *)
NextKill ==
    \/ \E pid \in Pids, force, raises \in BOOLEAN :
            KillCheck(pid, force, raises) /\ UNCHANGED not_kill_vars
    \/ \E permitted, obeys, raises \in BOOLEAN :
            KillSignal(permitted, obeys, raises) /\ UNCHANGED not_kill_vars
    \/ \E raises \in BOOLEAN : KillRecheck(raises) /\ UNCHANGED not_kill_vars
    \/ \E pid \in Pids : RemoteProcessChanges(pid) /\ UNCHANGED not_kill_vars

SpecKill == InitScan /\ [][NextKill]_vars

(* This host and a Process Manager ending its processes *)
NextTerm ==
    \/ \E pid \in LocalPids, force, allowed \in BOOLEAN :
            terminate_process(pid, force, allowed) /\ UNCHANGED not_term_vars
    \/ \E pid \in LocalPids : LocalProcessChanges(pid) /\ UNCHANGED not_term_vars

SpecTerm == InitScan /\ [][NextTerm]_vars

(* An envelope and the passwords tried on it *)
NextCrypto ==
    \/ \E data \in Plaintexts, password \in CryptoPasswords :
            EncryptBytes(data, password) /\ UNCHANGED not_crypto_vars
    \/ \E password \in CryptoPasswords, wrong \in WrongKeyBlocks(block_size) :
            DecryptBytes(password, wrong) /\ UNCHANGED not_crypto_vars

SpecCrypto == InitScan /\ [][NextCrypto]_vars

(* The probes of a scan and the result they make *)
NextProbe ==
    \/ \E scan_type \in ScanTypes, protocols \in ProtocolLists,
          system_connections \in SUBSET (ProbePorts \X Protocols) :
            ProbeStart(scan_type, protocols, system_connections) /\ UNCHANGED not_probe_vars
    \/ \E connect_ex \in ConnectResults : ProbePort(connect_ex) /\ UNCHANGED not_probe_vars
    \/ \E stopped \in BOOLEAN : ProbeReturn(stopped) /\ UNCHANGED not_probe_vars
    \/ ProbeFails /\ UNCHANGED not_probe_vars

SpecProbe == InitScan /\ [][NextProbe]_vars

(* The main window, its worker thread and its scanner *)
NextGui ==
    \/ \E t \in ScanTypes, n \in 1..MaxPorts :
            StartScan(ScanConfig(t, n, TRUE)) /\ UNCHANGED not_gui_vars
    \/ GuiStopScan /\ UNCHANGED not_gui_vars
    \/ WorkerCallsScan /\ UNCHANGED not_gui_vars
    \/ WorkerScans /\ UNCHANGED not_gui_vars
    \/ ScanFails /\ UNCHANGED not_scan_vars
    \/ ScanRaises /\ UNCHANGED not_scan_vars
    \/ WorkerPosts /\ UNCHANGED not_gui_vars
    \/ TkRunsCallback /\ UNCHANGED not_gui_vars

SpecGui == InitScan /\ [][NextGui]_vars

\* the worker thread is scheduled, every probe ends (it has a timeout), the Tk
\* event loop runs the callbacks handed to it and error dialogs are dismissed
SpecGuiFair ==
    /\ SpecGui
    /\ WF_vars(WorkerCallsScan /\ UNCHANGED not_gui_vars)
    /\ WF_vars(WorkerScans /\ UNCHANGED not_gui_vars)
    /\ WF_vars(WorkerPosts /\ UNCHANGED not_gui_vars)
    /\ WF_vars(TkRunsCallback /\ UNCHANGED not_gui_vars)

\* the Timer threads get to run, and time passes
SpecAuthFair ==
    /\ SpecAuth
    /\ WF_vars(TimerThread)
    /\ WF_vars(\E d \in AdvanceSteps : Advance(d))

-----------------------------------------------------------------------------
(* Properties *)

SamePair(a, b) == a.platform = b.platform /\ a.username = b.username

\* C1: after any add, update or delete, no two entries of the store share the
\* same (platform, username) pair.
C1_UniquePairs ==
    (pc = "idle" /\ data_store # None) =>
        \A i \in 1..Len(data_store.entries) : \A j \in 1..Len(data_store.entries) :
            i # j => ~SamePair(data_store.entries[i], data_store.entries[j])

\* a lockout has been set and its end has not been reached
LockedOut == lockout_until # None /\ lockout_until.t > 0

AuthPasswords == MasterPasswords \cup {EmptyPassword}

\* the step is an authenticate() call that tried the password and was refused
FailedLogin ==
    /\ \E p \in AuthPasswords : Authenticate(p)
    /\ ret'.loaded
    /\ ~ret'.success

\* C2 as stated: MAX_LOGIN_ATTEMPTS failed authenticate() calls leave the
\* service locked out, and while it is locked out
\* get_lockout_remaining_time() is a positive number of seconds, at most 300.
C2_RemainingPositive ==
    /\ failed_attempts >= 3 => lockout_until # None
    /\ LockedOut => get_lockout_remaining_time \in 1..300

\* C2, amended: the third failed authenticate() call in a row locks the
\* service out with 300 seconds remaining; while it is locked out
\* get_lockout_remaining_time() is a whole number from 0 to 300, positive as
\* long as a full second of the lockout remains.
C2_RemainingTruncated ==
    /\ [](failed_attempts >= 3 => lockout_until # None)
    /\ [](LockedOut => get_lockout_remaining_time \in 0..300)
    /\ [](LockedOut /\ lockout_until.t >= TicksPerSecond
            => get_lockout_remaining_time >= 1)
    /\ [][FailedLogin /\ failed_attempts' >= 3
            => LockedOut' /\ get_lockout_remaining_time' = 300]_vars

C2_Witness ==
    /\ failed_attempts = 3
    /\ ret.op = "authenticate" /\ ret.locked_out /\ ret.loaded
    /\ LockedOut
    /\ get_lockout_remaining_time = 300

\* C3: while the service is locked out, every authenticate() call, whatever
\* the password, is refused as locked out without calling load_database(),
\* and leaves the failed-attempt counter and the lockout expiry as they were.
C3_LockedOutRejected ==
    [][\A p \in AuthPasswords :
        LockedOut /\ Authenticate(p) =>
            /\ ~ret'.success /\ ret'.locked_out /\ ~ret'.loaded
            /\ UNCHANGED <<failed_attempts, lockout_until, is_authenticated,
                           data_store, master_password>>]_vars

C3_Witness ==
    /\ LockedOut
    /\ ret.op = "authenticate" /\ ret.locked_out /\ ~ret.loaded
    /\ file = ExistingVault

\* C4: once logout() or the auto-lock has ended a session, the repository is
\* not loaded: is_loaded() is false, get_password_entries() is empty and
\* decrypt_password() gives None for every entry.
C4_ClosedAfterSessionEnd ==
    session_end # "none" =>
        /\ ~is_loaded
        /\ get_password_entries = <<>>
        /\ data_store # None =>
             \A i \in 1..Len(data_store.entries) :
                decrypt_password(data_store.entries[i]) = None

\* is_authenticated()
IsAuthenticated == is_authenticated /\ is_loaded

\* the password whose hash the vault file carries
VaultPassword(f) == f.encrypted_data.padded.v.f_master_config.password_hash.password

\* C5: the service becomes authenticated only by an authenticate() call made
\* while it is not locked out, with the master password of the vault.
C5_OnlyByAuthenticate ==
    [][~IsAuthenticated /\ IsAuthenticated' =>
        \E p \in MasterPasswords :
            /\ Authenticate(p)
            /\ ~LockedOut
            /\ file # None
            /\ p = VaultPassword(file)]_vars

C5_Witness ==
    /\ IsAuthenticated
    /\ ret.op = "authenticate" /\ ret.success
    /\ session_end = "none"

\* the session was ended by _auto_lock, which called the callback if one is registered
AutoLocked ==
    /\ ~is_authenticated
    /\ session_end \in {"auto_lock", "auto_lock_cb"}
    /\ on_auto_lock_callback => session_end = "auto_lock_cb"

\* C6: an authenticated session in which nothing restarts the timer is ended
\* by the auto-lock: the registered callback is called and the service is no
\* longer authenticated.
C6_AutoLockFires ==
    \A k \in {0, 1} :
        (is_authenticated /\ activity = k) ~> (activity # k \/ AutoLocked)

C6_Witness ==
    /\ AutoLocked
    /\ session_end = "auto_lock_cb"
    /\ auto_lock_timer = None

MutatingCalls == {"add_password_entry", "update_password_entry",
                  "delete_password_entry", "update_app_settings"}

\* a fresh repository loads the vault file with this password and finds this store
LoadsAs(f, password, store) ==
    /\ load_database_result(f, password)
    /\ LoadedStore(f, password).entries = store.entries
    /\ \A i \in 1..Len(store.entries) :
          decrypt_data(json_loads(LoadedStore(f, password).entries[i].encrypted_password),
                       password)
            = decrypt_data(json_loads(store.entries[i].encrypted_password), password)

\* C7: when add, update, delete or update_app_settings has reported success,
\* the vault file is saved: a fresh repository loading it with the same master
\* password finds the same entries with the same decrypted passwords.
C7_SuccessMeansSaved ==
    (pc = "idle" /\ ret.op \in MutatingCalls /\ ret.success)
        => LoadsAs(file, master_password, data_store)

\* the last call was change_master_password with this outcome
ChangeReturned(success) ==
    /\ pc = "idle"
    /\ ret.op = "change_master_password"
    /\ ret.success = success
    /\ before # None

\* C8: a change_master_password() that stops because an entry does not
\* decrypt under the old password leaves the entries, the master
\* configuration, the password held and the vault file as they were.
C8_AbortChangesNothing ==
    (ChangeReturned(FALSE) /\ FirstUndecryptable(before.store, before.old) # 0)
        => /\ data_store = before.store
           /\ master_password = before.master_password
           /\ file = before.file

\* C9: after a successful change_master_password(old, new), loading the vault
\* file with old fails, loading it with new succeeds, and every entry
\* decrypts under new to the plaintext it had under old.
C9_Rekeyed ==
    (ChangeReturned(TRUE) /\ before.old # before.new)
        => /\ ~load_database_result(file, before.old)
           /\ load_database_result(file, before.new)
           /\ Len(LoadedStore(file, before.new).entries) = Len(before.store.entries)
           /\ \A i \in 1..Len(before.store.entries) :
                /\ decrypt_data(json_loads(
                        LoadedStore(file, before.new).entries[i].encrypted_password),
                        before.new)
                     = decrypt_data(json_loads(
                        before.store.entries[i].encrypted_password), before.old)
                /\ decrypt_data(json_loads(
                        before.store.entries[i].encrypted_password), before.old) # None

C9_Witness ==
    /\ ChangeReturned(TRUE)
    /\ before.old # before.new
    /\ Len(before.store.entries) > 0

\* C10: the vault file is replaced only by the move of a completely written
\* temp file that holds the current store, and, when a vault file existed,
\* only after the backup copy of it has been made.
C10_SaveOrder ==
    [][file' # file =>
        /\ pc = "move"
        /\ file' = temp_file
        /\ LoadParses(temp_file, master_password)
        /\ json_loads(decrypt_data(temp_file, master_password)) = to_dict(data_store)
        /\ file # None => backup_file = "copy"]_vars

C10_Witness ==
    /\ pc = "idle"
    /\ file # None
    /\ backup_file = "older"
    /\ io_failures > 0

\* C11: at most 5 RemoteClient instances obtained through the connection pool
\* hold a live SSH connection, whatever get_remote_client, connect,
\* execute_command, disconnect and close_all calls were made.
C11_AtMostFiveLive ==
    Cardinality({i \in 1..Len(clients) : Live(clients[i])}) <= 5

\* C12: execute_command on a client that is not connected (a dead transport
\* included) first makes a new connection and then runs the command; it fails
\* for lack of a connection only when that connection attempt failed.
C12_ReconnectsThenRuns ==
    (cmd.op = "execute_command" /\ ~cmd.was_connected)
        => /\ cmd.attempted
           /\ cmd.outcome \in {"ran", "no_connection"}

\* C13: once stop_scan() was called during a scan_ports call, that scan submits
\* no probe on a later iteration of the submission loop and collects no result
\* on a later iteration of the collection loop, on the local and the remote path
C13_StopEndsLoops ==
    [][stop_called => (submitted' = submitted /\ collected' = collected)]_vars

\* C14: a clear timer blanks the clipboard only when the clipboard holds the
\* text placed by the copy_text call that scheduled this timer
C14_BlanksOwnTextOnly ==
    [][\A k \in 1..Len(clip_timers) :
          (/\ clip_timers[k].pc = "fired"
           /\ clip_timers'[k].pc = "checked"
           /\ clipboard' # clipboard)
              => clipboard = Str(clip_timers[k].text)]_vars

\* C15: once the timer of the last timed copy_text has run and no timer is
\* left, the clipboard is empty, provided nothing was placed on it since
C15_ClearedAfterInterval ==
    (/\ placed # 0
     /\ \A k \in 1..Len(clip_timers) : clip_timers[k].pc \in {"done", "cancelled"})
        => clipboard = Str("")

\* C16: after extend_password_expiry(entry_id, days) returned success, the stored
\* entry expires days days after the time of the call
C16_ExpiryExtended ==
    (pc = "idle" /\ ret.op = "extend_password_expiry" /\ ret.success)
        => get_entry_by_id(data_store, extend.entry_id).expires_at
              = extend.at + extend.days

\* the stored entry with the pair of the last restored backup entry
RestoredEntries ==
    SelectSeq(data_store.entries,
              LAMBDA e : e.platform = restore.platform /\ e.username = restore.username)

\* C17: restoring with overwrite_existing a backup entry whose pair is already in
\* the vault replaces the password and the notes of the existing entry and counts
\* the entry as restored
C17_OverwriteReplaces ==
    (pc = "idle" /\ ret.op = "restore_backup" /\ restore.overwrite /\ restore.in_vault)
        => /\ ret.success
           /\ \A i \in 1..Len(RestoredEntries) :
                 /\ decrypt_password(RestoredEntries[i]) = restore.password
                 /\ RestoredEntries[i].notes = restore.notes

\* C18: after the dialog was closed with OK, the caller's list is the edited list
\* and the saved profile file holds exactly its profiles, whatever its length
C18_OkPersistsEditedList ==
    (~dialog.open /\ dialog.closed_by = "ok")
        => /\ list_objects[remote_configs] = list_objects[dialog.configs]
           /\ Len(remote_config_file) = Len(list_objects[dialog.configs])
           /\ \A i \in 1..Len(remote_config_file) :
                 remote_config_file[i].name = list_objects[dialog.configs][i].name

\* C19: after the dialog was closed with Cancel, the caller's list holds the
\* profiles it held when the dialog was opened, in the same order, and the saved
\* profile file is as it was
C19_CancelDiscardsEdits ==
    (~dialog.open /\ dialog.closed_by = "cancel")
        => /\ list_objects[remote_configs] = dialog.original
           /\ remote_config_file = dialog.file_at_open

C19_Witness ==
    /\ ~dialog.open
    /\ dialog.closed_by = "cancel"
    /\ dialog.original # <<>>
    /\ list_objects[dialog.configs] # dialog.original
    /\ Len(list_objects[dialog.configs]) = MaxProfiles

\* a scan started from the main window is in progress: its worker thread runs or
\* its callback waits for the event loop
ScanInProgress == scan_thread.pc # "none" \/ after_call # "none"

GuiIdle == ~is_scanning /\ scan_button = "normal" /\ stop_button = "disabled"

GuiScanning == is_scanning /\ scan_button = "disabled" /\ stop_button = "normal"

NamesInvalidPort(args) ==
    \E i \in 1..Len(args.items) :
        \/ args.items[i].kind = "bad"
        \/ ~InRange(args.items[i].a)
        \/ ~InRange(args.items[i].b)
        \/ args.items[i].a > args.items[i].b

\* C21: a scan request whose port specification is invalid or names a port outside
\* 1-65535 returns exit code 1 and runs no scan
C21_InvalidPortsRejected ==
    (cli.args.opt # "" /\ NamesInvalidPort(cli.args))
        => (cli.exit_code = 1 /\ ~cli.scanned)

\* C22: after remove_remote_config(host, username) returned true, no profile
\* with that (host, username) is left in the saved profile file
C22_RemovedKeyIsGone ==
    [][(/\ config_call'.n # config_call.n
        /\ config_call'.op = "remove_remote_config"
        /\ config_call'.result)
           => \A i \in 1..Len(remote_config_file') :
                 ~SameKey(remote_config_file'[i], config_call'.host, config_call'.username)]_vars

\* C23: every profile stored in the saved profile file has an empty password
C23_NoPasswordInFile ==
    \A i \in 1..Len(remote_config_file) : remote_config_file[i].password = ""

C23_Witness ==
    /\ config_call.op = "add_remote_config"
    /\ config_call.result
    /\ Len(remote_config_file) = MaxProfiles
    /\ \E i \in 1..Len(list_objects[remote_configs]) :
          list_objects[remote_configs][i].password # ""

\* C24: kill_remote_process returns success only if the check before the signal
\* found the process, the kill command exited with code 0 and the check after the
\* wait no longer finds the process; in every other case it returns failure
C24_KillSuccessConfirmed ==
    kill.returned
        => (kill.success <=> (/\ kill.found_before
                              /\ kill.kill_exit = 0
                              /\ kill.rechecked
                              /\ ~kill.found_after))

C24_Witness ==
    /\ kill.returned
    /\ kill.success
    /\ ~kill.force
    /\ ~remote_procs[kill.pid]

\* C25: terminate_process for a protected PID returns (false, a message saying
\* the process is protected) and delivers neither terminate nor kill to it
C25_ProtectedRefused ==
    (term_call.returned /\ is_protected_process(term_call.pid))
        => /\ ~term_call.success
           /\ term_call.message = "protected"
           /\ term_call.signal = "none"

\* C26: decrypt_data with a password other than the one the envelope was
\* encrypted with returns None, never a string
C26_WrongPasswordGivesNone ==
    (decrypted.called /\ decrypted.password # envelope.password)
        => decrypted.result = None

\* the round trip with the right password gives the plaintext back
C26_RightPasswordRoundTrip ==
    (decrypted.called /\ decrypted.password = envelope.password)
        => decrypted.result = Str(envelope.plaintext)

\* C27: is_scanning() is true exactly while a scan_ports call is in progress:
\* false before any scan, and false once a scan has returned without a stop
ScanPortsInProgress == scan_pc \notin {"idle", "returned"}

C27_IsScanningOnlyDuringScan ==
    (~ScanPortsInProgress /\ ~stop_called) => ~PortScanner_is_scanning

\* C28: once a later copy_text call has returned, the timer of an earlier
\* copy_text call neither blanks the clipboard nor resets the remembered text
\* or the timer the later call installed
C28_EarlierTimerCancelled ==
    [][\A k \in 1..Len(clip_timers) :
          (/\ k < Len(clip_timers)
           /\ clip_timers[k].pc \in {"fired", "checked"}
           /\ clip_timers'[k].pc # clip_timers[k].pc)
              => /\ clipboard' = clipboard
                 /\ last_copied_text' = last_copied_text
                 /\ clear_timer' = clear_timer]_vars

\* C29: a session is not auto-locked while the timer started by its latest
\* update_activity() is still waiting for auto_lock_timeout to pass
C29_NoEarlyAutoLock ==
    [][(/\ is_authenticated
        /\ ~is_authenticated'
        /\ session_end' \in {"auto_lock", "auto_lock_cb"})
          => ~(auto_lock_timer # None /\ auto_lock_timer.state = "waiting")]_vars

====
